---- MODULE Spec2Model ----
(***************************************************************************)
(* A model of SimpleRDBMS (src/simple_rdbms.py): Index, Table, Database    *)
(* with JSON persistence, SQLParser and SimpleRDBMS.execute, as one call   *)
(* and as the steps of calls that threads make on one engine.              *)
(*                                                                         *)
(* Python strings that the code inspects character by character (column   *)
(* and table names, WHERE clauses, JSON row keys, TEXT values) are         *)
(* sequences of one-character strings.  A Python value is a record         *)
(* [tag, n, s]: tag names the Python type, n carries the number of an int, *)
(* float or bool, s carries the characters of a str.                       *)
(***************************************************************************)
EXTENDS Integers, Sequences, FiniteSets, TLC

-----------------------------------------------------------------------------
(* Bounds *)

\* next_id may not exceed this value: it bounds the inserts into one table.
MaxNextId == 2

-----------------------------------------------------------------------------
(* Python values *)

Null == [tag |-> "null", n |-> 0, s |-> <<>>]
IntV(i) == [tag |-> "int", n |-> i, s |-> <<>>]
RealV(i) == [tag |-> "real", n |-> i, s |-> <<>>]
BoolV(b) == [tag |-> "bool", n |-> IF b THEN 1 ELSE 0, s |-> <<>>]
TextV(cs) == [tag |-> "text", n |-> 0, s |-> cs]

Digits == <<"0", "1", "2", "3", "4", "5", "6", "7", "8", "9">>

IsDigit(ch) == \E i \in 1..10 : Digits[i] = ch

DigitVal(ch) == (CHOOSE i \in 1..10 : Digits[i] = ch) - 1

\* str(n) for a non-negative int
RECURSIVE IntToStr(_)
IntToStr(i) ==
    IF i < 10 THEN <<Digits[i + 1]>>
    ELSE IntToStr(i \div 10) \o <<Digits[(i % 10) + 1]>>

AllDigits(cs) == Len(cs) > 0 /\ \A i \in 1..Len(cs) : IsDigit(cs[i])

\* int(s) for a string of decimal digits
RECURSIVE StrToInt(_)
StrToInt(cs) ==
    IF Len(cs) = 0 THEN 0
    ELSE 10 * StrToInt(SubSeq(cs, 1, Len(cs) - 1)) + DigitVal(cs[Len(cs)])

\* str(value) as Python prints it
PyStr(v) ==
    CASE v.tag = "null" -> <<"N", "o", "n", "e">>
      [] v.tag = "int"  -> IntToStr(v.n)
      [] v.tag = "real" -> IntToStr(v.n) \o <<".", "0">>
      [] v.tag = "bool" -> IF v.n = 1 THEN <<"T", "r", "u", "e">>
                           ELSE <<"F", "a", "l", "s", "e">>
      [] OTHER          -> v.s

-----------------------------------------------------------------------------
(* DataType, Column *)

DataTypes == {"INTEGER", "TEXT", "REAL", "BOOLEAN"}

Column(name, data_type, primary_key, unique, nullable) ==
    [name |-> name, data_type |-> data_type, primary_key |-> primary_key,
     unique |-> unique, nullable |-> nullable]

\* The conversion _validate_row applies to a non-null value:
\* int(value), float(value), str(value) or bool(value).
Convert(data_type, v) ==
    CASE data_type = "INTEGER" ->
           IF v.tag = "text"
           THEN IF AllDigits(v.s) THEN [err |-> "ok", v |-> IntV(StrToInt(v.s))]
                ELSE [err |-> "convert", v |-> Null]
           ELSE [err |-> "ok", v |-> IntV(v.n)]
      [] data_type = "REAL" ->
           IF v.tag = "text"
           THEN IF AllDigits(v.s) THEN [err |-> "ok", v |-> RealV(StrToInt(v.s))]
                ELSE [err |-> "convert", v |-> Null]
           ELSE [err |-> "ok", v |-> RealV(v.n)]
      [] data_type = "TEXT" -> [err |-> "ok", v |-> TextV(PyStr(v))]
      [] OTHER ->
           [err |-> "ok",
            v |-> BoolV(IF v.tag = "text" THEN Len(v.s) > 0 ELSE v.n /= 0)]

-----------------------------------------------------------------------------
(* Index: index_map is a function from the values that have a bucket to   *)
(* the bucket, a set of row ids.                                           *)

EmptyMap == [x \in {} |-> {}]

IndexAdd(index_map, value, row_id) ==
    [x \in DOMAIN index_map \cup {value} |->
        IF x = value
        THEN (IF value \in DOMAIN index_map THEN index_map[value] ELSE {})
               \cup {row_id}
        ELSE index_map[x]]

IndexRemove(index_map, value, row_id) ==
    IF value \in DOMAIN index_map
    THEN IF index_map[value] \ {row_id} = {}
         THEN [x \in DOMAIN index_map \ {value} |-> index_map[x]]
         ELSE [index_map EXCEPT ![value] = @ \ {row_id}]
    ELSE index_map

\* lookup returns the bucket itself when there is one, a new empty set
\* otherwise.
IndexLookup(index_map, value) ==
    IF value \in DOMAIN index_map THEN index_map[value] ELSE {}

\* existing.discard(row_id) on the set lookup returned: the set is the
\* bucket of the index, so the bucket loses row_id (and stays, even empty).
DiscardFromLookup(index_map, value, row_id) ==
    IF value \in DOMAIN index_map
    THEN [index_map EXCEPT ![value] = @ \ {row_id}]
    ELSE index_map

-----------------------------------------------------------------------------
(* Table: rows is the dict of rows in its iteration order, a sequence of   *)
(* [id, row]; a row is a function from column names to values.             *)

NoRowId == -1

\* NewTable with an index for every column of the schema
NewTableIndexEveryColumn(name, columns) ==
    [name |-> name,
     columns |-> columns,
     rows |-> <<>>,
     next_id |-> 0,
     indexes |-> [c \in {columns[i].name : i \in 1..Len(columns)} |-> EmptyMap]]

\* Table.__init__: an index for each primary-key or unique column
NewTable(name, columns) ==
    [name |-> name,
     columns |-> columns,
     rows |-> <<>>,
     next_id |-> 0,
     indexes |-> [c \in {columns[i].name : i \in
                          {j \in 1..Len(columns) :
                             columns[j].primary_key \/ columns[j].unique}}
                  |-> EmptyMap]]

RowIds(T) == {T.rows[i].id : i \in 1..Len(T.rows)}

RowAt(T, row_id) == T.rows[CHOOSE i \in 1..Len(T.rows) : T.rows[i].id = row_id].row

\* SetRow as a store that puts the row it writes last, also when the key
\* is there already
SetRowMoveToEnd(rows, row_id, row) ==
    LET Keep(e) == e.id /= row_id IN
    Append(SelectSeq(rows, Keep), [id |-> row_id, row |-> row])

\* rows[row_id] = row on a dict: in place for a key it has, at the end otherwise
SetRow(rows, row_id, row) ==
    IF \E i \in 1..Len(rows) : rows[i].id = row_id
    THEN [i \in 1..Len(rows) |->
             IF rows[i].id = row_id THEN [id |-> row_id, row |-> row] ELSE rows[i]]
    ELSE Append(rows, [id |-> row_id, row |-> row])

\* del rows[row_id]
DelRow(rows, row_id) ==
    LET Keep(e) == e.id /= row_id IN SelectSeq(rows, Keep)

\* row.get(col_name)
RowGet(row, col_name) == IF col_name \in DOMAIN row THEN row[col_name] ELSE Null

\* NullAllowed without the test: a null passes in every column
NullAllowedAlways(col) == TRUE

\* The nullable check of _validate_row: a null passes unless the column is
\* NOT NULL and is not the primary key
NullAllowed(col) == ~(~col.nullable /\ ~col.primary_key)

\* The loop of _validate_row from column i on.  It returns the error raised
\* ("ok" when none), the validated row, and the indexes as the loop leaves
\* them: the uniqueness check of an update discards row_id from the set
\* lookup returned.
RECURSIVE ValidateFrom(_, _, _, _, _, _)
ValidateFrom(columns, i, row, row_id, validated, indexes) ==
    IF i > Len(columns)
    THEN [err |-> "ok", validated |-> validated, indexes |-> indexes]
    ELSE
      LET col == columns[i]
          value == RowGet(row, col.name)
          Put(v) == [c \in DOMAIN validated \cup {col.name} |->
                        IF c = col.name THEN v ELSE validated[c]]
      IN
      IF value = Null
      THEN IF ~NullAllowed(col)
           THEN [err |-> "null", validated |-> validated, indexes |-> indexes]
           ELSE ValidateFrom(columns, i + 1, row, row_id, Put(Null), indexes)
      ELSE
        LET conv == Convert(col.data_type, value) IN
        IF conv.err /= "ok"
        THEN [err |-> "convert", validated |-> validated, indexes |-> indexes]
        ELSE
          IF (col.unique \/ col.primary_key) /\ col.name \in DOMAIN indexes
          THEN
            LET index_map == IF row_id /= NoRowId
                             THEN DiscardFromLookup(indexes[col.name], conv.v, row_id)
                             ELSE indexes[col.name]
                existing == IndexLookup(index_map, conv.v)
                indexes2 == [indexes EXCEPT ![col.name] = index_map]
            IN
            IF existing /= {}
            THEN [err |-> "unique", validated |-> Put(conv.v), indexes |-> indexes2]
            ELSE ValidateFrom(columns, i + 1, row, row_id, Put(conv.v), indexes2)
          ELSE ValidateFrom(columns, i + 1, row, row_id, Put(conv.v), indexes)

ValidateRow(T, row, row_id) ==
    ValidateFrom(T.columns, 1, row, row_id, EmptyMap, T.indexes)

\* The row id insert stores the row under, and the counter after it.
InsertRowId(T) == T.next_id

AdvanceNextId(next_id) == next_id + 1

\* Table.insert: [table, err, row_id]
TableInsert(T, row) ==
    LET val == ValidateRow(T, row, NoRowId) IN
    IF val.err /= "ok"
    THEN [table |-> [T EXCEPT !.indexes = val.indexes],
          err |-> val.err, row_id |-> NoRowId]
    ELSE
      LET row_id == InsertRowId(T)
          validated == val.validated
      IN
      [table |-> [T EXCEPT
                    !.rows = SetRow(T.rows, row_id, validated),
                    !.next_id = AdvanceNextId(T.next_id),
                    !.indexes = [c \in DOMAIN T.indexes |->
                        IF c \in DOMAIN validated /\ validated[c] /= Null
                        THEN IndexAdd(val.indexes[c], validated[c], row_id)
                        ELSE val.indexes[c]]],
       err |-> "ok", row_id |-> row_id]

\* {**old_row, **updates}
MergeRow(old_row, updates) ==
    [c \in DOMAIN old_row \cup DOMAIN updates |->
        IF c \in DOMAIN updates THEN updates[c] ELSE old_row[c]]

\* MoveIndexEntry without index.remove: the entry of the old value stays
MoveIndexEntryAddOnly(index_map, old_value, new_value, row_id) ==
    IF new_value /= Null THEN IndexAdd(index_map, new_value, row_id) ELSE index_map

\* The index loop of Table.update for one index
MoveIndexEntry(index_map, old_value, new_value, row_id) ==
    LET removed == IF old_value /= Null
                   THEN IndexRemove(index_map, old_value, row_id)
                   ELSE index_map
    IN IF new_value /= Null THEN IndexAdd(removed, new_value, row_id) ELSE removed

\* Table.update: [table, err, row_id]
TableUpdate(T, row_id, updates) ==
    IF row_id \notin RowIds(T)
    THEN [table |-> T, err |-> "notfound", row_id |-> row_id]
    ELSE
      LET old_row == RowAt(T, row_id)
          new_row == MergeRow(old_row, updates)
          val == ValidateRow(T, new_row, row_id)
          validated == val.validated
      IN
      IF val.err /= "ok"
      THEN [table |-> [T EXCEPT !.indexes = val.indexes],
            err |-> val.err, row_id |-> row_id]
      ELSE
        [table |-> [T EXCEPT
                      !.indexes = [c \in DOMAIN T.indexes |->
                          MoveIndexEntry(val.indexes[c], RowGet(old_row, c),
                                         RowGet(validated, c), row_id)],
                      !.rows = SetRow(T.rows, row_id, validated)],
         err |-> "ok", row_id |-> row_id]

\* Table.delete: [table, err, row_id]
TableDelete(T, row_id) ==
    IF row_id \notin RowIds(T)
    THEN [table |-> T, err |-> "notfound", row_id |-> row_id]
    ELSE
      LET row == RowAt(T, row_id) IN
      [table |-> [T EXCEPT
                    !.indexes = [c \in DOMAIN T.indexes |->
                        IF RowGet(row, c) /= Null
                        THEN IndexRemove(T.indexes[c], row[c], row_id)
                        ELSE T.indexes[c]],
                    !.rows = DelRow(T.rows, row_id)],
       err |-> "ok", row_id |-> row_id]

\* Table.select without a predicate: the (row_id, row) pairs in dict order
TableSelectAll(T) == T.rows

-----------------------------------------------------------------------------
(* Database.save and Database.load.  The file is the JSON document: a      *)
(* value is written as a JSON token [jt, text], a row id as the string     *)
(* str(row_id), and both are parsed back on load.                          *)

\* json.dump of a value
ToJson(v) ==
    CASE v.tag = "null" -> [jt |-> "null", text |-> <<>>]
      [] v.tag = "bool" -> [jt |-> IF v.n = 1 THEN "true" ELSE "false", text |-> <<>>]
      [] v.tag = "int"  -> [jt |-> "number", text |-> IntToStr(v.n)]
      [] v.tag = "real" -> [jt |-> "number", text |-> IntToStr(v.n) \o <<".", "0">>]
      [] OTHER          -> [jt |-> "string", text |-> v.s]

\* The digits of a JSON number before its decimal point
RECURSIVE IntegerPart(_)
IntegerPart(cs) ==
    IF Len(cs) = 0 \/ cs[1] = "." THEN <<>>
    ELSE <<cs[1]>> \o IntegerPart(Tail(cs))

\* json.load of a value
FromJson(j) ==
    CASE j.jt = "null"   -> Null
      [] j.jt = "true"   -> BoolV(TRUE)
      [] j.jt = "false"  -> BoolV(FALSE)
      [] j.jt = "number" ->
           IF \E i \in 1..Len(j.text) : j.text[i] = "."
           THEN RealV(StrToInt(IntegerPart(j.text)))
           ELSE IntV(StrToInt(j.text))
      [] OTHER           -> TextV(j.text)

\* The entry save writes for one table
SaveTable(T) ==
    [columns |-> T.columns,
     rows |-> [i \in 1..Len(T.rows) |->
                 [key |-> IntToStr(T.rows[i].id),
                  row |-> [c \in DOMAIN T.rows[i].row |-> ToJson(T.rows[i].row[c])]]],
     next_id |-> T.next_id]

\* Database.save: the content of the file
SaveData(tbls) ==
    [exists |-> TRUE, complete |-> TRUE,
     tables |-> [tn \in DOMAIN tbls |-> SaveTable(tbls[tn])]]

\* The file exists and does not hold a whole JSON document: open(db_path,
\* 'w') has truncated it and json.dump has not written the document yet, or
\* the document is followed by the tail of another
OpenedForWriting == [exists |-> TRUE, complete |-> FALSE, tables |-> EmptyMap]

\* LoadNextId computed from the number of restored rows instead of the
\* saved counter
LoadNextIdFromRows(table_data) == Len(table_data.rows)

\* table.next_id = table_data.get("next_id", 0)
LoadNextId(table_data) == table_data.next_id

\* LoadIndexAdd without the test for None: a null is indexed too
LoadIndexAddNulls(indexes, row, row_id) ==
    [c \in DOMAIN indexes |->
        IF c \in DOMAIN row THEN IndexAdd(indexes[c], row[c], row_id) ELSE indexes[c]]

\* The index loop of load for one restored row
LoadIndexAdd(indexes, row, row_id) ==
    [c \in DOMAIN indexes |->
        IF c \in DOMAIN row /\ row[c] /= Null
        THEN IndexAdd(indexes[c], row[c], row_id)
        ELSE indexes[c]]

\* The row loop of load from entry i on
RECURSIVE LoadRows(_, _, _)
LoadRows(T, jrows, i) ==
    IF i > Len(jrows) THEN T
    ELSE
      LET row_id == StrToInt(jrows[i].key)
          row == [c \in DOMAIN jrows[i].row |-> FromJson(jrows[i].row[c])]
      IN LoadRows([T EXCEPT !.rows = SetRow(T.rows, row_id, row),
                            !.indexes = LoadIndexAdd(T.indexes, row, row_id)],
                  jrows, i + 1)

\* The body of the table loop of load
LoadTable(table_name, table_data) ==
    LoadRows([NewTable(table_name, table_data.columns)
                 EXCEPT !.next_id = LoadNextId(table_data)],
             table_data.rows, 1)

\* Database.__init__ with load: the tables of a database opened on the file
LoadData(f) ==
    IF f.exists THEN [t \in DOMAIN f.tables |-> LoadTable(t, f.tables[t])]
    ELSE EmptyMap

-----------------------------------------------------------------------------
(* SQLParser.parse_select and the SELECT branch of SimpleRDBMS.execute.    *)
(* A statement is the list of its words, sql.split(): the parser works on  *)
(* ' '.join(sql.split()).                                                  *)

LowerCase == <<"a", "b", "c", "d", "e", "f", "g", "h", "i", "j", "k", "l", "m",
               "n", "o", "p", "q", "r", "s", "t", "u", "v", "w", "x", "y", "z">>
UpperCase == <<"A", "B", "C", "D", "E", "F", "G", "H", "I", "J", "K", "L", "M",
               "N", "O", "P", "Q", "R", "S", "T", "U", "V", "W", "X", "Y", "Z">>

\* str.upper() of one character and of a string
UpperChar(ch) ==
    IF \E i \in 1..26 : LowerCase[i] = ch
    THEN UpperCase[CHOOSE i \in 1..26 : LowerCase[i] = ch]
    ELSE ch

Upper(cs) == [i \in 1..Len(cs) |-> UpperChar(cs[i])]

\* \w of the regular expressions
IsWordChar(ch) ==
    \/ \E i \in 1..26 : LowerCase[i] = ch \/ UpperCase[i] = ch
    \/ IsDigit(ch)
    \/ ch = "_"

\* The longest prefix of word characters: what (\w+) matches
RECURSIVE WordPrefix(_)
WordPrefix(cs) ==
    IF Len(cs) = 0 \/ ~IsWordChar(cs[1]) THEN <<>>
    ELSE <<cs[1]>> \o WordPrefix(Tail(cs))

StartsWith(cs, prefix) ==
    Len(cs) >= Len(prefix) /\ SubSeq(cs, 1, Len(prefix)) = prefix

KwSelect == <<"S", "E", "L", "E", "C", "T">>
KwFrom == <<"F", "R", "O", "M">>
KwWhere == <<"W", "H", "E", "R", "E">>

\* re.match(r'SELECT \* FROM (\w+)(?:\s+WHERE\s+(.+))?', sql, IGNORECASE):
\* the match is a prefix match, so words after the table name that do not
\* start a WHERE clause are left unmatched, and group 2 is None.
ParseSelect(sql) ==
    IF /\ Len(sql) >= 4
       /\ Upper(sql[1]) = KwSelect
       /\ sql[2] = <<"*">>
       /\ Upper(sql[3]) = KwFrom
       /\ WordPrefix(sql[4]) /= <<>>
    THEN [ok |-> TRUE,
          table |-> WordPrefix(sql[4]),
          where |-> IF /\ WordPrefix(sql[4]) = sql[4]
                       /\ Len(sql) >= 6
                       /\ Upper(sql[5]) = KwWhere
                    THEN SubSeq(sql, 6, Len(sql))
                    ELSE <<>>]
    ELSE [ok |-> FALSE, table |-> <<>>, where |-> <<>>]

\* str.replace(pat, rep)
RECURSIVE ReplaceAll(_, _, _)
ReplaceAll(cs, pat, rep) ==
    IF Len(cs) < Len(pat) \/ Len(pat) = 0 THEN cs
    ELSE IF SubSeq(cs, 1, Len(pat)) = pat
         THEN rep \o ReplaceAll(SubSeq(cs, Len(pat) + 1, Len(cs)), pat, rep)
         ELSE <<cs[1]>> \o ReplaceAll(Tail(cs), pat, rep)

\* What where_func puts in place of a column name: f"'{val}'" or str(val)
Rendered(v) == IF v.tag = "text" THEN <<"'">> \o v.s \o <<"'">> ELSE PyStr(v)

\* The substitution loop of where_func over row.keys() from key i on; the
\* keys of a stored row are the column names in schema order, and a column
\* name has no blank in it, so the replacement acts word by word.
RECURSIVE Substitute(_, _, _, _)
Substitute(expr, columns, i, row) ==
    IF i > Len(columns) THEN expr
    ELSE Substitute([k \in 1..Len(expr) |->
                        ReplaceAll(expr[k], columns[i].name, Rendered(row[columns[i].name]))],
                    columns, i + 1, row)

\* A word of the substituted expression read as a Python literal; ok is
\* FALSE for a word that is a name or no expression at all.
PyLiteral(w) ==
    CASE w = <<"N", "o", "n", "e">> -> [ok |-> TRUE, v |-> Null]
      [] w = <<"T", "r", "u", "e">> -> [ok |-> TRUE, v |-> BoolV(TRUE)]
      [] w = <<"F", "a", "l", "s", "e">> -> [ok |-> TRUE, v |-> BoolV(FALSE)]
      [] AllDigits(w) ->
           IF Len(w) > 1 /\ w[1] = "0" /\ StrToInt(w) /= 0
           THEN [ok |-> FALSE, v |-> Null]
           ELSE [ok |-> TRUE, v |-> IntV(StrToInt(w))]
      [] /\ Len(w) >= 3
         /\ AllDigits(IntegerPart(w))
         /\ SubSeq(w, Len(IntegerPart(w)) + 1, Len(w)) = <<".", "0">> ->
           [ok |-> TRUE, v |-> RealV(StrToInt(IntegerPart(w)))]
      [] /\ Len(w) >= 2
         /\ w[1] = "'"
         /\ w[Len(w)] = "'"
         /\ \A i \in 2..(Len(w) - 1) : w[i] \notin {"'", "\\"} ->
           [ok |-> TRUE, v |-> TextV(SubSeq(w, 2, Len(w) - 1))]
      [] OTHER -> [ok |-> FALSE, v |-> Null]

IsNumber(v) == v.tag \in {"int", "real", "bool"}

\* Python's == on two values
PyEq(a, b) == IF IsNumber(a) /\ IsNumber(b) THEN a.n = b.n ELSE a = b

\* Python's truth value
PyTruth(v) ==
    CASE v.tag = "null" -> FALSE
      [] v.tag = "text" -> Len(v.s) > 0
      [] OTHER          -> v.n /= 0

\* The place of a character in the order of code points, among the
\* characters of words
CharOrder == Digits \o UpperCase \o <<"_">> \o LowerCase

CharRank(ch) ==
    IF \E i \in 1..Len(CharOrder) : CharOrder[i] = ch
    THEN CHOOSE i \in 1..Len(CharOrder) : CharOrder[i] = ch
    ELSE 0

\* Python's < on two strings
RECURSIVE StrLess(_, _)
StrLess(a, b) ==
    IF Len(b) = 0 THEN FALSE
    ELSE IF Len(a) = 0 THEN TRUE
    ELSE IF a[1] = b[1] THEN StrLess(Tail(a), Tail(b))
    ELSE CharRank(a[1]) < CharRank(b[1])

\* eval(expr) for an expression of one word or of three (operand, operator,
\* operand): [raised, value].  A single = is no operator of an expression,
\* so eval raises SyntaxError on it; < and > raise TypeError unless both
\* operands are numbers or both are strings.
PyEval(expr) ==
    LET Raise == [raised |-> TRUE, value |-> FALSE]
        Return(b) == [raised |-> FALSE, value |-> b]
    IN
    IF Len(expr) = 1
    THEN IF PyLiteral(expr[1]).ok THEN Return(PyTruth(PyLiteral(expr[1]).v)) ELSE Raise
    ELSE IF Len(expr) /= 3 THEN Raise
    ELSE
      LET l == PyLiteral(expr[1])
          r == PyLiteral(expr[3])
          op == expr[2]
      IN
      IF op \notin {<<"=", "=">>, <<"!", "=">>, <<"<">>, <<">">>} THEN Raise
      ELSE IF ~l.ok \/ ~r.ok THEN Raise
      ELSE IF op = <<"=", "=">> THEN Return(PyEq(l.v, r.v))
      ELSE IF op = <<"!", "=">> THEN Return(~PyEq(l.v, r.v))
      ELSE IF IsNumber(l.v) /\ IsNumber(r.v)
           THEN IF op = <<"<">> THEN Return(l.v.n < r.v.n) ELSE Return(l.v.n > r.v.n)
      ELSE IF l.v.tag = "text" /\ r.v.tag = "text"
           THEN IF op = <<"<">> THEN Return(StrLess(l.v.s, r.v.s))
                ELSE Return(StrLess(r.v.s, l.v.s))
      ELSE Raise

\* _compile_where: where_func(row) for a stored row of table T
WhereFunc(where_clause, T, row) ==
    LET e == PyEval(Substitute(where_clause, T.columns, 1, row)) IN
    IF e.raised THEN FALSE ELSE e.value

\* Table.select(where_func)
TableSelect(T, where_clause) ==
    LET Keep(e) == WhereFunc(where_clause, T, e.row) IN SelectSeq(T.rows, Keep)

\* The SELECT branch of execute: [err, table, rows]
ExecuteSelect(tbls, sql) ==
    LET p == ParseSelect(sql) IN
    IF ~p.ok THEN [err |-> "syntax", table |-> <<>>, rows |-> <<>>]
    ELSE IF p.table \notin DOMAIN tbls
         THEN [err |-> "notable", table |-> p.table, rows |-> <<>>]
         ELSE [err |-> "ok", table |-> p.table,
               rows |-> IF p.where /= <<>>
                        THEN TableSelect(tbls[p.table], p.where)
                        ELSE TableSelectAll(tbls[p.table])]

-----------------------------------------------------------------------------
(* SQLParser for the statements that change the database.  The parsers     *)
(* match regular expressions against ' '.join(sql.split()), the words of   *)
(* the statement joined by single blanks.                                  *)

\* ' '.join(words)
RECURSIVE Join(_)
Join(words) ==
    IF Len(words) = 0 THEN <<>>
    ELSE IF Len(words) = 1 THEN words[1]
    ELSE words[1] \o <<" ">> \o Join(Tail(words))

\* The position of the first sep in cs, 0 when there is none
FindChar(cs, sep) ==
    IF \E i \in 1..Len(cs) : cs[i] = sep
    THEN CHOOSE i \in 1..Len(cs) : cs[i] = sep /\ \A j \in 1..(i - 1) : cs[j] /= sep
    ELSE 0

\* str.split(sep): the pieces between the separators, empty ones included
RECURSIVE SplitAt(_, _)
SplitAt(cs, sep) ==
    LET i == FindChar(cs, sep) IN
    IF i = 0 THEN <<cs>>
    ELSE <<SubSeq(cs, 1, i - 1)>> \o SplitAt(SubSeq(cs, i + 1, Len(cs)), sep)

\* str.split(): the words between blanks
SplitWords(cs) ==
    LET NonEmpty(w) == Len(w) > 0 IN SelectSeq(SplitAt(cs, " "), NonEmpty)

\* str.lstrip(ch) and str.rstrip(ch)
RECURSIVE LStrip(_, _)
LStrip(cs, ch) ==
    IF Len(cs) > 0 /\ cs[1] = ch THEN LStrip(Tail(cs), ch) ELSE cs

RECURSIVE RStrip(_, _)
RStrip(cs, ch) ==
    IF Len(cs) > 0 /\ cs[Len(cs)] = ch THEN RStrip(SubSeq(cs, 1, Len(cs) - 1), ch) ELSE cs

\* str.strip() of blanks and str.strip("'")
Strip(cs) == RStrip(LStrip(cs, " "), " ")

StripQuotes(cs) == RStrip(LStrip(cs, "'"), "'")

\* The rest of cs from position i on
From(cs, i) == SubSeq(cs, i, Len(cs))

\* \s* on a string whose blanks are single: the rest without a leading blank
SkipBlank(cs) == IF Len(cs) > 0 /\ cs[1] = " " THEN Tail(cs) ELSE cs

KwNull == <<"N", "U", "L", "L">>
KwTrue == <<"T", "R", "U", "E">>
KwFalse == <<"F", "A", "L", "S", "E">>

\* int(val) and float(val) of the value tokens the model uses: a run of
\* digits is an int, a run of digits followed by ".0" is a float, anything
\* else makes both raise ValueError and the token stays a str
CoerceNumber(val) ==
    IF AllDigits(val) THEN IntV(StrToInt(val))
    ELSE IF /\ Len(val) >= 3
            /\ AllDigits(IntegerPart(val))
            /\ From(val, Len(IntegerPart(val)) + 1) = <<".", "0">>
         THEN RealV(StrToInt(IntegerPart(val)))
         ELSE TextV(val)

\* parse_insert, "Convert values": NULL, TRUE/FALSE, int, float, str
CoerceInsert(val) ==
    IF Upper(val) = KwNull THEN Null
    ELSE IF Upper(val) \in {KwTrue, KwFalse} THEN BoolV(Upper(val) = KwTrue)
    ELSE CoerceNumber(val)

\* parse_update, the conversion of a SET value: NULL, int, float, str
CoerceUpdate(val) ==
    IF Upper(val) = KwNull THEN Null
    ELSE CoerceNumber(val)

KwInsertInto == <<"I", "N", "S", "E", "R", "T", " ", "I", "N", "T", "O">>
KwValues == <<"V", "A", "L", "U", "E", "S">>

\* \s*VALUES\s*\( at the start of cs: ok, and the rest after the bracket
ValuesOpen(cs) ==
    LET r1 == SkipBlank(cs)
        r2 == SkipBlank(From(r1, Len(KwValues) + 1))
    IN IF StartsWith(Upper(r1), KwValues) /\ Len(r2) > 0 /\ r2[1] = "("
       THEN [ok |-> TRUE, rest |-> Tail(r2)]
       ELSE [ok |-> FALSE, rest |-> <<>>]

\* The value loop of parse_insert over values_str from character i on: a
\* quote opens or closes a string and is dropped, a comma outside a string
\* ends a value, and a value is stripped of blanks and then of quotes
RECURSIVE SplitValues(_, _, _, _, _)
SplitValues(cs, i, current, in_string, values) ==
    IF i > Len(cs)
    THEN IF current /= <<>> THEN Append(values, StripQuotes(Strip(current))) ELSE values
    ELSE IF cs[i] = "'" /\ (current = <<>> \/ current[Len(current)] /= "\\")
         THEN SplitValues(cs, i + 1, current, ~in_string, values)
         ELSE IF cs[i] = "," /\ ~in_string
              THEN SplitValues(cs, i + 1, <<>>, in_string,
                               Append(values, StripQuotes(Strip(current))))
              ELSE SplitValues(cs, i + 1, Append(current, cs[i]), in_string, values)

\* dict(zip(keys, values)) after each value went through Coerce: a key that
\* comes twice keeps its last value
ZipRow(keys, values, Coerce(_)) ==
    [c \in {keys[i] : i \in 1..Len(keys)} |->
        Coerce(values[CHOOSE i \in 1..Len(keys) :
                         keys[i] = c /\ \A j \in (i + 1)..Len(keys) : keys[j] /= c])]

\* parse_insert:
\* re.match(r'INSERT INTO (\w+)\s*\((.*?)\)\s*VALUES\s*\((.*?)\)', sql),
\* a prefix match.  [err, table, row]
ParseInsert(sql) ==
    LET s == Join(sql)
        head == KwInsertInto \o <<" ">>
        a == From(s, Len(head) + 1)
        table == WordPrefix(a)
        b == SkipBlank(From(a, Len(table) + 1))
        c == IF Len(b) > 0 THEN Tail(b) ELSE <<>>
        \* the ends (.*?) can take: a ")" that VALUES ( and a later ")" follow
        Ends == {k \in 1..Len(c) :
                    /\ c[k] = ")"
                    /\ ValuesOpen(From(c, k + 1)).ok
                    /\ FindChar(ValuesOpen(From(c, k + 1)).rest, ")") > 0}
        Failed(e) == [err |-> e, table |-> <<>>, row |-> EmptyMap]
    IN
    IF \/ ~StartsWith(Upper(s), head)
       \/ table = <<>>
       \/ Len(b) = 0
       \/ b[1] /= "("
       \/ Ends = {}
    THEN Failed("syntax")
    ELSE
      LET k == CHOOSE e \in Ends : \A e2 \in Ends : e <= e2
          v == ValuesOpen(From(c, k + 1)).rest
          split == SplitAt(SubSeq(c, 1, k - 1), ",")
          columns == [i \in 1..Len(split) |-> Strip(split[i])]
          values == SplitValues(SubSeq(v, 1, FindChar(v, ")") - 1), 1, <<>>, FALSE, <<>>)
      IN
      IF Len(columns) /= Len(values) THEN Failed("arity")
      ELSE [err |-> "ok", table |-> table, row |-> ZipRow(columns, values, CoerceInsert)]

KwUpdate == <<"U", "P", "D", "A", "T", "E">>
KwSet == <<"S", "E", "T">>
KwCreateTable == <<"C", "R", "E", "A", "T", "E", " ", "T", "A", "B", "L", "E">>
KwDropTable == <<"D", "R", "O", "P", " ", "T", "A", "B", "L", "E">>
KwDeleteFrom == <<"D", "E", "L", "E", "T", "E", " ", "F", "R", "O", "M">>

\* (?:\s+WHERE\s+(.+)) at the start of cs
WhereOpen(cs) ==
    /\ StartsWith(Upper(cs), <<" ">> \o KwWhere \o <<" ">>)
    /\ Len(cs) > Len(KwWhere) + 2

\* The assignments of a SET clause from assignment i on: col, val =
\* assignment.split('='), which raises unless there is exactly one "="
RECURSIVE Assignments(_, _, _, _)
Assignments(parts, i, cols, vals) ==
    IF i > Len(parts) THEN [err |-> "ok", cols |-> cols, vals |-> vals]
    ELSE LET sides == SplitAt(parts[i], "=") IN
         IF Len(sides) /= 2 THEN [err |-> "internal", cols |-> cols, vals |-> vals]
         ELSE Assignments(parts, i + 1,
                          Append(cols, Strip(sides[1])),
                          Append(vals, StripQuotes(Strip(sides[2]))))

\* parse_update:
\* re.match(r'UPDATE (\w+)\s+SET\s+(.+?)(?:\s+WHERE\s+(.+))?$', sql).
\* [err, table, updates, where], where the words of the WHERE clause
ParseUpdate(sql) ==
    LET s == Join(sql)
        a == From(s, Len(KwUpdate) + 2)
        table == WordPrefix(a)
        b == From(a, Len(table) + 1)
        set_head == <<" ">> \o KwSet \o <<" ">>
        r == From(b, Len(set_head) + 1)
        \* the ends (.+?) can take before a WHERE clause
        Ends == {k \in 1..Len(r) : WhereOpen(From(r, k + 1))}
        Failed(e) == [err |-> e, table |-> <<>>, updates |-> EmptyMap, where |-> <<>>]
    IN
    IF \/ ~StartsWith(Upper(s), KwUpdate \o <<" ">>)
       \/ table = <<>>
       \/ ~StartsWith(Upper(b), set_head)
       \/ Len(r) = 0
    THEN Failed("syntax")
    ELSE
      LET k == IF Ends = {} THEN Len(r) ELSE CHOOSE e \in Ends : \A e2 \in Ends : e <= e2
          where_clause == IF Ends = {} THEN <<>> ELSE From(r, k + Len(KwWhere) + 3)
          asg == Assignments(SplitAt(SubSeq(r, 1, k), ","), 1, <<>>, <<>>)
      IN
      IF asg.err /= "ok" THEN Failed(asg.err)
      ELSE [err |-> "ok", table |-> table,
            updates |-> ZipRow(asg.cols, asg.vals, CoerceUpdate),
            where |-> SplitWords(where_clause)]

\* pat in cs
Contains(cs, pat) ==
    \E i \in 1..(Len(cs) - Len(pat) + 1) : SubSeq(cs, i, i + Len(pat) - 1) = pat

\* DataType(name): the member with that value
DataTypeNames ==
    {[text |-> <<"I", "N", "T", "E", "G", "E", "R">>, data_type |-> "INTEGER"],
     [text |-> <<"T", "E", "X", "T">>, data_type |-> "TEXT"],
     [text |-> <<"R", "E", "A", "L">>, data_type |-> "REAL"],
     [text |-> <<"B", "O", "O", "L", "E", "A", "N">>, data_type |-> "BOOLEAN"]}

\* The column loop of parse_create_table from definition i on
RECURSIVE ColumnDefs(_, _, _)
ColumnDefs(defs, i, columns) ==
    IF i > Len(defs) THEN [err |-> "ok", columns |-> columns]
    ELSE
      LET col_def == defs[i]
          parts == SplitWords(Strip(col_def))
          Has(word) == \E j \in 1..Len(parts) : Upper(parts[j]) = word
      IN
      IF Len(parts) < 2 THEN [err |-> "syntax", columns |-> columns]
      ELSE IF \A n \in DataTypeNames : n.text /= Upper(parts[2])
           THEN [err |-> "datatype", columns |-> columns]
           ELSE ColumnDefs(defs, i + 1,
                  Append(columns,
                    Column(parts[1],
                           (CHOOSE n \in DataTypeNames : n.text = Upper(parts[2])).data_type,
                           Has(<<"P", "R", "I", "M", "A", "R", "Y">>),
                           Has(<<"U", "N", "I", "Q", "U", "E">>),
                           ~Contains(Upper(col_def),
                                     <<"N", "O", "T", " ", "N", "U", "L", "L">>))))

\* parse_create_table: re.match(r'CREATE TABLE (\w+)\s*\((.*)\)', sql), a
\* prefix match whose (.*) runs to the last ")".  [err, table, columns]
ParseCreateTable(sql) ==
    LET s == Join(sql)
        a == From(s, Len(KwCreateTable) + 2)
        table == WordPrefix(a)
        b == SkipBlank(From(a, Len(table) + 1))
        c == IF Len(b) > 0 THEN Tail(b) ELSE <<>>
        Closes == {k \in 1..Len(c) : c[k] = ")"}
        Failed(e) == [err |-> e, table |-> <<>>, columns |-> <<>>]
    IN
    IF \/ ~StartsWith(Upper(s), KwCreateTable \o <<" ">>)
       \/ table = <<>>
       \/ Len(b) = 0
       \/ b[1] /= "("
       \/ Closes = {}
    THEN Failed("syntax")
    ELSE
      LET k == CHOOSE e \in Closes : \A e2 \in Closes : e >= e2
          defs == ColumnDefs(SplitAt(SubSeq(c, 1, k - 1), ","), 1, <<>>)
      IN
      IF defs.err /= "ok" THEN Failed(defs.err)
      ELSE [err |-> "ok", table |-> table, columns |-> defs.columns]

\* The DELETE branch of execute:
\* re.match(r'DELETE FROM (\w+)(?:\s+WHERE\s+(.+))?', sql), a prefix match.
\* [err, table, where]
ParseDelete(sql) ==
    LET s == Join(sql)
        a == From(s, Len(KwDeleteFrom) + 2)
        table == WordPrefix(a)
        b == From(a, Len(table) + 1)
    IN
    IF ~StartsWith(Upper(s), KwDeleteFrom \o <<" ">>) \/ table = <<>>
    THEN [err |-> "syntax", table |-> <<>>, where |-> <<>>]
    ELSE [err |-> "ok", table |-> table,
          where |-> IF WhereOpen(b)
                    THEN SplitWords(From(b, Len(KwWhere) + 3))
                    ELSE <<>>]

-----------------------------------------------------------------------------
(* SimpleRDBMS.execute for the statements that change the database.  A     *)
(* branch gives [op, err, table, tables, row, row_id, count]: tables is    *)
(* Database.tables as the branch leaves it, also when it raises.           *)

Outcome(op, err, table, tbls, row, row_id, count) ==
    [op |-> op, err |-> err, table |-> table, tables |-> tbls, row |-> row,
     row_id |-> row_id, count |-> count]

\* Database.create_table with what parse_create_table returned
CreateTableParsed(tbls, p) ==
    IF p.err /= "ok"
    THEN Outcome("create_table", p.err, <<>>, tbls, EmptyMap, NoRowId, 0)
    ELSE IF p.table \in DOMAIN tbls
         THEN Outcome("create_table", "exists", p.table, tbls, EmptyMap, NoRowId, 0)
         ELSE Outcome("create_table", "ok", p.table,
                      [x \in DOMAIN tbls \cup {p.table} |->
                          IF x = p.table THEN NewTable(p.table, p.columns) ELSE tbls[x]],
                      EmptyMap, NoRowId, 0)

\* Database.create_table after parse_create_table
ExecuteCreateTable(tbls, sql) == CreateTableParsed(tbls, ParseCreateTable(sql))

\* Database.drop_table(sql.split()[2])
ExecuteDropTable(tbls, sql) ==
    IF Len(sql) < 3
    THEN Outcome("drop_table", "internal", <<>>, tbls, EmptyMap, NoRowId, 0)
    ELSE IF sql[3] \notin DOMAIN tbls
         THEN Outcome("drop_table", "notable", sql[3], tbls, EmptyMap, NoRowId, 0)
         ELSE Outcome("drop_table", "ok", sql[3],
                      [x \in DOMAIN tbls \ {sql[3]} |-> tbls[x]], EmptyMap, NoRowId, 0)

\* get_table and Table.insert with what parse_insert returned
InsertParsed(tbls, p) ==
    IF p.err /= "ok"
    THEN Outcome("insert", p.err, <<>>, tbls, EmptyMap, NoRowId, 0)
    ELSE IF p.table \notin DOMAIN tbls
         THEN Outcome("insert", "notable", p.table, tbls, p.row, NoRowId, 0)
         ELSE LET r == TableInsert(tbls[p.table], p.row) IN
              Outcome("insert", r.err, p.table, [tbls EXCEPT ![p.table] = r.table],
                      p.row, r.row_id, 0)

\* Table.insert after parse_insert and get_table
ExecuteInsert(tbls, sql) == InsertParsed(tbls, ParseInsert(sql))

\* for row_id, _ in rows: table.update(row_id, updates); count += 1
\* from pair i of rows on.  The loop stops at the first update that raises.
RECURSIVE UpdateEach(_, _, _, _)
UpdateEach(T, rows, i, updates) ==
    IF i > Len(rows) THEN [table |-> T, err |-> "ok", count |-> i - 1]
    ELSE LET r == TableUpdate(T, rows[i].id, updates) IN
         IF r.err /= "ok" THEN [table |-> r.table, err |-> r.err, count |-> i - 1]
         ELSE UpdateEach(r.table, rows, i + 1, updates)

\* for row_id, _ in rows: table.delete(row_id); count += 1
RECURSIVE DeleteEach(_, _, _)
DeleteEach(T, rows, i) ==
    IF i > Len(rows) THEN [table |-> T, err |-> "ok", count |-> i - 1]
    ELSE LET r == TableDelete(T, rows[i].id) IN
         IF r.err /= "ok" THEN [table |-> r.table, err |-> r.err, count |-> i - 1]
         ELSE DeleteEach(r.table, rows, i + 1)

\* The rows the UPDATE and DELETE branches select before they change any
MatchedRows(T, where_clause) ==
    IF where_clause /= <<>> THEN TableSelect(T, where_clause) ELSE TableSelectAll(T)

\* The UPDATE branch of execute with what parse_update returned
UpdateParsed(tbls, p) ==
    IF p.err /= "ok"
    THEN Outcome("update", p.err, <<>>, tbls, EmptyMap, NoRowId, 0)
    ELSE IF p.table \notin DOMAIN tbls
         THEN Outcome("update", "notable", p.table, tbls, p.updates, NoRowId, 0)
         ELSE LET r == UpdateEach(tbls[p.table], MatchedRows(tbls[p.table], p.where),
                                  1, p.updates)
              IN Outcome("update", r.err, p.table, [tbls EXCEPT ![p.table] = r.table],
                         p.updates, NoRowId, r.count)

\* The UPDATE branch of execute
ExecuteUpdate(tbls, sql) == UpdateParsed(tbls, ParseUpdate(sql))

\* The DELETE branch of execute with what its regex matched
DeleteParsed(tbls, p) ==
    IF p.err /= "ok"
    THEN Outcome("delete", p.err, <<>>, tbls, EmptyMap, NoRowId, 0)
    ELSE IF p.table \notin DOMAIN tbls
         THEN Outcome("delete", "notable", p.table, tbls, EmptyMap, NoRowId, 0)
         ELSE LET r == DeleteEach(tbls[p.table], MatchedRows(tbls[p.table], p.where), 1)
              IN Outcome("delete", r.err, p.table, [tbls EXCEPT ![p.table] = r.table],
                         EmptyMap, NoRowId, r.count)

\* The DELETE branch of execute
ExecuteDelete(tbls, sql) == DeleteParsed(tbls, ParseDelete(sql))

\* The dispatch of execute on sql.upper().startswith(...), the SELECT branch
\* apart; a statement no branch takes raises "Unsupported SQL command"
ExecuteStatement(tbls, sql) ==
    LET u == Upper(Join(sql)) IN
    CASE StartsWith(u, KwCreateTable) -> ExecuteCreateTable(tbls, sql)
      [] StartsWith(u, KwDropTable)   -> ExecuteDropTable(tbls, sql)
      [] StartsWith(u, KwInsertInto)  -> ExecuteInsert(tbls, sql)
      [] StartsWith(u, KwUpdate)      -> ExecuteUpdate(tbls, sql)
      [] StartsWith(u, KwDeleteFrom)  -> ExecuteDelete(tbls, sql)
      [] OTHER -> Outcome("unsupported", "syntax", <<>>, tbls, EmptyMap, NoRowId, 0)

-----------------------------------------------------------------------------
(* The text json.dump(data, f, indent=2) writes, by its length: two file   *)
(* objects opened on db_path write from offset 0 each, so what a second    *)
(* writer leaves depends on which document is the longer.                  *)

\* The sum of f over the set S
RECURSIVE SumOver(_, _)
SumOver(f, S) ==
    IF S = {} THEN 0
    ELSE LET x == CHOOSE y \in S : TRUE IN f[x] + SumOver(f, S \ {x})

\* A JSON object or array of count items, total characters long together,
\* each on its own line, whose closing bracket is indented by indent
Block(total, count, indent) ==
    IF count = 0 THEN 2
    ELSE 2 + total + 2 * (count - 1) + 1 + indent + 1

\* true or false
BoolLength(b) == IF b THEN 4 ELSE 5

\* A JSON token
TokenLength(j) ==
    CASE j.jt \in {"null", "true"} -> 4
      [] j.jt = "false"            -> 5
      [] j.jt = "number"           -> Len(j.text)
      [] OTHER                     -> Len(j.text) + 2

\* The entry of a column in "columns"
ColumnLength(col) ==
    LET dt == (CHOOSE d \in DataTypeNames : d.data_type = col.data_type).text IN
    8 + Block(  (10 + 8 + Len(col.name) + 2)
              + (10 + 13 + Len(dt) + 2)
              + (10 + 15 + BoolLength(col.primary_key))
              + (10 + 10 + BoolLength(col.unique))
              + (10 + 12 + BoolLength(col.nullable)), 5, 8)

\* The entry of a row in "rows"
RowLength(r) ==
    8 + Len(r.key) + 4
      + Block(SumOver([c \in DOMAIN r.row |-> 10 + Len(c) + 4 + TokenLength(r.row[c])],
                      DOMAIN r.row),
              Cardinality(DOMAIN r.row), 8)

\* The entry of a table in "tables"
TableLength(tn, table_data) ==
    LET columns == [i \in 1..Len(table_data.columns) |->
                      ColumnLength(table_data.columns[i])]
        rows == [i \in 1..Len(table_data.rows) |-> RowLength(table_data.rows[i])]
    IN
    4 + Len(tn) + 4
      + Block(  (6 + 11 + Block(SumOver(columns, DOMAIN columns), Len(columns), 6))
              + (6 + 8 + Block(SumOver(rows, DOMAIN rows), Len(rows), 6))
              + (6 + 11 + Len(IntToStr(table_data.next_id))), 3, 4)

\* The whole document
DocLength(f) ==
    Block(2 + 10 + Block(SumOver([tn \in DOMAIN f.tables |->
                                     TableLength(tn, f.tables[tn])],
                                 DOMAIN f.tables),
                         Cardinality(DOMAIN f.tables), 2), 1, 0)

\* f.write of the document data through a file object that open(db_path,
\* 'w') returned earlier, on the file as it is now.  Whatever was written
\* after that open stays beyond the end of data: a longer document leaves
\* its tail, and the file is no JSON document.
WriteOver(f, data) ==
    IF f.complete /\ DocLength(f) > DocLength(data) THEN OpenedForWriting
    ELSE data

-----------------------------------------------------------------------------
(* The schemas and the inputs of the model *)

id == <<"i", "d">>
name == <<"n", "a", "m", "e">>
user_id == <<"u", "s", "e", "r", "_", "i", "d">>
t == <<"t">>
tasks == <<"t", "a", "s", "k", "s">>
users == <<"u", "s", "e", "r", "s">>

\* CREATE TABLE t (id INTEGER PRIMARY KEY, name TEXT UNIQUE)
UniqueNameColumns ==
    <<Column(id, "INTEGER", TRUE, FALSE, TRUE),
      Column(name, "TEXT", FALSE, TRUE, TRUE)>>

\* CREATE TABLE t (id INTEGER PRIMARY KEY, name TEXT NOT NULL)
NotNullNameColumns ==
    <<Column(id, "INTEGER", TRUE, FALSE, TRUE),
      Column(name, "TEXT", FALSE, FALSE, FALSE)>>

\* CREATE TABLE t (id REAL UNIQUE, name BOOLEAN)
RealBooleanColumns ==
    <<Column(id, "REAL", FALSE, TRUE, TRUE),
      Column(name, "BOOLEAN", FALSE, FALSE, TRUE)>>

\* CREATE TABLE tasks (id INTEGER PRIMARY KEY, user_id INTEGER)
TasksColumns ==
    <<Column(id, "INTEGER", TRUE, FALSE, TRUE),
      Column(user_id, "INTEGER", FALSE, FALSE, TRUE)>>

\* CREATE TABLE users (id INTEGER PRIMARY KEY, name TEXT)
UsersColumns ==
    <<Column(id, "INTEGER", TRUE, FALSE, TRUE),
      Column(name, "TEXT", FALSE, FALSE, TRUE)>>

IdValues == {IntV(1), IntV(2)}
NameValues == {TextV(<<"a">>), TextV(<<"b">>)}

\* A dict with the given keys
Dict2(k1, v1, k2, v2) == [c \in {k1, k2} |-> IF c = k1 THEN v1 ELSE v2]
Dict1(k1, v1) == [c \in {k1} |-> v1]

\* The dicts given to Table.insert: each column present or left out
InsertRows ==
    {Dict2(id, i, name, n) : i \in IdValues, n \in NameValues}
    \cup {Dict1(id, i) : i \in IdValues}
    \cup {Dict1(name, n) : n \in NameValues}

\* The dicts given to Table.update
UpdateRows ==
    {Dict1(id, i) : i \in IdValues \cup {Null}}
    \cup {Dict1(name, n) : n \in NameValues \cup {Null}}

-----------------------------------------------------------------------------
(* State.  tables is Database.tables and file the persistence file.        *)
(* result is the last call: its arguments, the row update read before it   *)
(* changed anything, and what the call returned or raised.  issued lists,  *)
(* per table, the row ids insert has returned, and file_issued is issued   *)
(* as it was when the file was written.  threads gives, for each thread    *)
(* that calls into the engine, where it stands in its call and the locals  *)
(* of that call.                                                           *)

VARIABLES tables, file, result, issued, file_issued, threads

vars == <<tables, file, result, issued, file_issued, threads>>

NoFile == [exists |-> FALSE, complete |-> TRUE, tables |-> EmptyMap]

Threads == {1, 2}

\* A thread that is not inside a call.  Inside execute, pc says which
\* statement of the branch, of Table.insert or of Database.save the thread
\* has reached; validated, row_id and data are the locals of those methods,
\* op, table, count and err what the call is about to return or raise.
Idle ==
    [pc |-> "idle", sql |-> <<>>, op |-> "none", table |-> <<>>,
     validated |-> EmptyMap, row_id |-> NoRowId, count |-> 0, err |-> "ok",
     data |-> NoFile]

Call(op, table, row, row_id, err) ==
    [op |-> op, table |-> table, row |-> row, row_id |-> row_id, err |-> err,
     old_row |-> EmptyMap, sql |-> <<>>, rows |-> <<>>, count |-> 0]

\* A new, empty database: no file at db_path, so load returns at once
Init ==
    /\ tables = EmptyMap
    /\ file = NoFile
    /\ result = Call("init", <<>>, EmptyMap, NoRowId, "ok")
    /\ issued = EmptyMap
    /\ file_issued = EmptyMap
    /\ threads = [th \in Threads |-> Idle]

\* Database.create_table(tn, columns)
CreateTable(tn, columns) ==
    /\ IF tn \in DOMAIN tables
       THEN /\ result' = Call("create_table", tn, EmptyMap, NoRowId, "exists")
            /\ UNCHANGED <<tables, issued>>
       ELSE /\ tables' = [x \in DOMAIN tables \cup {tn} |->
                             IF x = tn THEN NewTable(tn, columns) ELSE tables[x]]
            /\ issued' = [x \in DOMAIN tables \cup {tn} |->
                             IF x = tn THEN <<>> ELSE issued[x]]
            /\ result' = Call("create_table", tn, EmptyMap, NoRowId, "ok")
    /\ UNCHANGED <<file, file_issued>>
    /\ UNCHANGED threads

\* Table.insert(row) on get_table(tn)
Insert(tn, row) ==
    /\ tn \in DOMAIN tables
    /\ tables[tn].next_id < MaxNextId
    /\ LET r == TableInsert(tables[tn], row) IN
       /\ tables' = [tables EXCEPT ![tn] = r.table]
       /\ issued' = IF r.err = "ok" THEN [issued EXCEPT ![tn] = Append(@, r.row_id)]
                    ELSE issued
       /\ result' = Call("insert", tn, row, r.row_id, r.err)
    /\ UNCHANGED <<file, file_issued>>
    /\ UNCHANGED threads

\* Table.update(row_id, updates) on get_table(tn)
Update(tn, row_id, updates) ==
    /\ tn \in DOMAIN tables
    /\ LET r == TableUpdate(tables[tn], row_id, updates) IN
       /\ tables' = [tables EXCEPT ![tn] = r.table]
       /\ result' = [Call("update", tn, updates, row_id, r.err) EXCEPT
                        !.old_row = IF row_id \in RowIds(tables[tn])
                                    THEN RowAt(tables[tn], row_id)
                                    ELSE EmptyMap]
    /\ UNCHANGED <<file, issued, file_issued>>
    /\ UNCHANGED threads

\* Table.delete(row_id) on get_table(tn)
Delete(tn, row_id) ==
    /\ tn \in DOMAIN tables
    /\ LET r == TableDelete(tables[tn], row_id) IN
       /\ tables' = [tables EXCEPT ![tn] = r.table]
       /\ result' = Call("delete", tn, EmptyMap, row_id, r.err)
    /\ UNCHANGED <<file, issued, file_issued>>
    /\ UNCHANGED threads

\* Database.save()
Save ==
    /\ file' = SaveData(tables)
    /\ file_issued' = issued
    /\ result' = Call("save", <<>>, EmptyMap, NoRowId, "ok")
    /\ UNCHANGED <<tables, issued>>
    /\ UNCHANGED threads

\* Database(db_path): the database is opened again on the file
Load ==
    /\ tables' = LoadData(file)
    /\ issued' = file_issued
    /\ result' = Call("load", <<>>, EmptyMap, NoRowId, "ok")
    /\ UNCHANGED <<file, file_issued>>
    /\ UNCHANGED threads

\* SimpleRDBMS.execute(sql) for a statement that starts with SELECT
Select(sql) ==
    /\ StartsWith(Upper(sql[1]), KwSelect)
    /\ LET r == ExecuteSelect(tables, sql) IN
       result' = [Call("select", r.table, EmptyMap, NoRowId, r.err) EXCEPT
                     !.sql = sql, !.rows = r.rows]
    /\ UNCHANGED <<tables, file, issued, file_issued>>
    /\ UNCHANGED threads

\* SaveAfter with the save left out of the UPDATE and DELETE branches
SaveAfterDefinitions(r, f) ==
    IF r.err = "ok" /\ r.op \notin {"update", "delete"} THEN SaveData(r.tables) ELSE f

\* self.db.save() as the last statement of each branch: the file after a
\* branch with outcome r that found the file f
SaveAfter(r, f) == IF r.err = "ok" THEN SaveData(r.tables) ELSE f

\* SimpleRDBMS.execute(sql) for a statement that does not start with SELECT:
\* the branch, and self.db.save() when the branch did not raise
Execute(sql) ==
    /\ ~StartsWith(Upper(Join(sql)), KwSelect)
    /\ \E r \in {ExecuteStatement(tables, sql)} :
       /\ (r.op = "insert" /\ r.table \in DOMAIN tables)
             => tables[r.table].next_id < MaxNextId
       /\ tables' = r.tables
       /\ issued' = [x \in DOMAIN r.tables |->
                        IF x \notin DOMAIN tables \/ (r.op = "drop_table" /\ x = r.table)
                        THEN <<>>
                        ELSE IF r.op = "insert" /\ r.err = "ok" /\ x = r.table
                             THEN Append(issued[x], r.row_id)
                             ELSE issued[x]]
       /\ file' = SaveAfter(r, file)
       /\ file_issued' = IF r.err = "ok" THEN issued' ELSE file_issued
       /\ result' = [Call(r.op, r.table, r.row, r.row_id, r.err) EXCEPT
                        !.sql = sql, !.count = r.count]
    /\ UNCHANGED threads

\* execute(sql) of an INSERT on thread th, statement by statement.  The code
\* takes no lock, so between two statements of one thread another thread
\* may run.
\* parse_insert, get_table and validated = self._validate_row(row)
InsertValidate(th, sql) ==
    /\ threads[th].pc = "idle"
    /\ \E p \in {ParseInsert(sql)} :
       /\ p.err = "ok"
       /\ p.table \in DOMAIN tables
       /\ tables[p.table].next_id < MaxNextId
       /\ \E val \in {ValidateRow(tables[p.table], p.row, NoRowId)} :
          IF val.err = "ok"
          THEN /\ threads' = [threads EXCEPT ![th] =
                                [Idle EXCEPT !.pc = "validated", !.sql = sql,
                                             !.op = "insert", !.table = p.table,
                                             !.validated = val.validated]]
               /\ UNCHANGED result
          ELSE /\ threads' = [threads EXCEPT ![th] =
                                [Idle EXCEPT !.pc = "done", !.sql = sql,
                                             !.op = "insert", !.table = p.table,
                                             !.err = val.err]]
               /\ result' = [Call("insert", p.table, p.row, NoRowId, val.err)
                               EXCEPT !.sql = sql]
    /\ UNCHANGED <<tables, file, issued, file_issued>>

\* row_id = self.next_id
InsertTakeId(th) ==
    /\ threads[th].pc = "validated"
    /\ threads' = [threads EXCEPT ![th].pc = "took_id",
                                  ![th].row_id = tables[threads[th].table].next_id]
    /\ UNCHANGED <<tables, file, result, issued, file_issued>>

\* self.rows[row_id] = validated
InsertStore(th) ==
    /\ threads[th].pc = "took_id"
    /\ tables' = [tables EXCEPT ![threads[th].table].rows =
                     SetRow(@, threads[th].row_id, threads[th].validated)]
    /\ threads' = [threads EXCEPT ![th].pc = "stored"]
    /\ UNCHANGED <<file, result, issued, file_issued>>

\* self.next_id += 1
InsertAdvance(th) ==
    /\ threads[th].pc = "stored"
    /\ tables' = [tables EXCEPT ![threads[th].table].next_id = AdvanceNextId(@)]
    /\ threads' = [threads EXCEPT ![th].pc = "advanced"]
    /\ UNCHANGED <<file, result, issued, file_issued>>

\* The index loop of insert, and return row_id
InsertIndex(th) ==
    /\ threads[th].pc = "advanced"
    /\ LET validated == threads[th].validated IN
       tables' = [tables EXCEPT ![threads[th].table].indexes =
                     [c \in DOMAIN @ |->
                         IF c \in DOMAIN validated /\ validated[c] /= Null
                         THEN IndexAdd(@[c], validated[c], threads[th].row_id)
                         ELSE @[c]]]
    /\ issued' = [issued EXCEPT ![threads[th].table] = Append(@, threads[th].row_id)]
    /\ threads' = [threads EXCEPT ![th].pc = "executed"]
    /\ UNCHANGED <<file, result, file_issued>>

\* execute(sql) on thread th of a statement that is neither INSERT nor
\* SELECT, up to the call of save: the branch as one step
ExecuteBranch(th, sql) ==
    /\ threads[th].pc = "idle"
    /\ ~StartsWith(Upper(Join(sql)), KwSelect)
    /\ ~StartsWith(Upper(Join(sql)), KwInsertInto)
    /\ \E r \in {ExecuteStatement(tables, sql)} :
       /\ tables' = r.tables
       /\ issued' = [x \in DOMAIN r.tables |->
                        IF x \notin DOMAIN tables \/ (r.op = "drop_table" /\ x = r.table)
                        THEN <<>>
                        ELSE issued[x]]
       /\ threads' = [threads EXCEPT ![th] =
                        [Idle EXCEPT !.pc = IF r.err = "ok" THEN "executed" ELSE "done",
                                     !.sql = sql, !.op = r.op, !.table = r.table,
                                     !.validated = r.row, !.count = r.count,
                                     !.err = r.err]]
       /\ result' = IF r.err = "ok" THEN result
                    ELSE [Call(r.op, r.table, r.row, NoRowId, r.err) EXCEPT
                             !.sql = sql, !.count = r.count]
    /\ UNCHANGED <<file, file_issued>>

\* Database.save, the statement that builds data from self.tables
SaveBuild(th) ==
    /\ threads[th].pc = "executed"
    /\ threads' = [threads EXCEPT ![th].pc = "built", ![th].data = SaveData(tables)]
    /\ UNCHANGED <<tables, file, result, issued, file_issued>>

\* Database.save: open(self.db_path, 'w') truncates the file
SaveOpen(th) ==
    /\ threads[th].pc = "built"
    /\ file' = OpenedForWriting
    /\ threads' = [threads EXCEPT ![th].pc = "opened"]
    /\ UNCHANGED <<tables, result, issued, file_issued>>

\* Database.save: json.dump(data, f) and the close of the file; execute
\* returns its status string
SaveDump(th) ==
    /\ threads[th].pc = "opened"
    /\ file' = WriteOver(file, threads[th].data)
    /\ file_issued' = issued
    /\ threads' = [threads EXCEPT ![th].pc = "done"]
    /\ result' = [Call(threads[th].op, threads[th].table, threads[th].validated,
                       threads[th].row_id, "ok") EXCEPT
                     !.sql = threads[th].sql, !.count = threads[th].count]
    /\ UNCHANGED <<tables, issued>>

\* The caller has the status or the error of its call and may call again
Return(th) ==
    /\ threads[th].pc = "done"
    /\ threads' = [threads EXCEPT ![th] = Idle]
    /\ UNCHANGED <<tables, file, result, issued, file_issued>>

\* The process is killed, wherever its threads stand, and started again:
\* Database(db_path) loads the file.  json.load raises on a file that does
\* not hold a whole document, and then there is no database.
CrashAndReopen ==
    /\ IF file.complete
       THEN /\ tables' = LoadData(file)
            /\ issued' = file_issued
            /\ threads' = [th \in Threads |-> Idle]
            /\ result' = Call("reopen", <<>>, EmptyMap, NoRowId, "ok")
       ELSE /\ tables' = EmptyMap
            /\ issued' = EmptyMap
            /\ threads' = [th \in Threads |-> [Idle EXCEPT !.pc = "failed"]]
            /\ result' = Call("reopen", <<>>, EmptyMap, NoRowId, "corrupt")
    /\ UNCHANGED <<file, file_issued>>

\* The caller of execute assigns result[i][1][c] = v on the list a SELECT
\* returned.  Table.select appends (row_id, row) with row the dict the table
\* stores, so the assignment is made to the stored row; the indexes are
\* not touched.
CallerSetsItem(i, c, v) ==
    /\ result.op = "select"
    /\ result.err = "ok"
    /\ i \in 1..Len(result.rows)
    /\ LET row_id == result.rows[i].id
           row == [k \in DOMAIN result.rows[i].row \cup {c} |->
                      IF k = c THEN v ELSE result.rows[i].row[k]]
       IN
       /\ tables' = [tables EXCEPT ![result.table].rows = SetRow(@, row_id, row)]
       /\ result' = [result EXCEPT !.op = "setitem", !.row_id = row_id,
                                   !.rows[i].row = row]
    /\ UNCHANGED <<file, issued, file_issued, threads>>

-----------------------------------------------------------------------------
(* Spec: one table t, of either schema, under Table.insert, Table.update   *)
(* and Table.delete.                                                       *)

RowIdArgs == 0..(MaxNextId - 1)

Next ==
    \/ \E columns \in {UniqueNameColumns, NotNullNameColumns} : CreateTable(t, columns)
    \/ \E row \in InsertRows : Insert(t, row)
    \/ \E row_id \in RowIdArgs, updates \in UpdateRows : Update(t, row_id, updates)
    \/ \E row_id \in RowIdArgs : Delete(t, row_id)

Spec == Init /\ [][Next]_vars

-----------------------------------------------------------------------------
(* SpecPersist: the table t, of either schema, with save and load.         *)

PersistInsertRows ==
    {Dict2(id, IntV(12), name, TextV(<<"a">>)), Dict1(name, TextV(<<"b">>))}

PersistUpdateRows == {Dict1(id, IntV(2)), Dict1(name, Null)}

NextPersist ==
    \/ \E columns \in {UniqueNameColumns, RealBooleanColumns} : CreateTable(t, columns)
    \/ \E row \in PersistInsertRows : Insert(t, row)
    \/ \E row_id \in RowIdArgs, updates \in PersistUpdateRows : Update(t, row_id, updates)
    \/ \E row_id \in RowIdArgs : Delete(t, row_id)
    \/ Save
    \/ Load

SpecPersist == Init /\ [][NextPersist]_vars

-----------------------------------------------------------------------------
(* SpecExecute: the table t under the statements that change the database, *)
(* well formed and not.                                                    *)

\* CREATE TABLE t (id INTEGER PRIMARY KEY, done BOOLEAN)
CreateT ==
    <<<<"C", "R", "E", "A", "T", "E">>, <<"T", "A", "B", "L", "E">>, <<"t">>,
      <<"(", "i", "d">>, <<"I", "N", "T", "E", "G", "E", "R">>,
      <<"P", "R", "I", "M", "A", "R", "Y">>, <<"K", "E", "Y", ",">>,
      <<"d", "o", "n", "e">>, <<"B", "O", "O", "L", "E", "A", "N", ")">>>>

\* DROP TABLE t
DropT ==
    <<<<"D", "R", "O", "P">>, <<"T", "A", "B", "L", "E">>, <<"t">>>>

\* INSERT INTO t (id, done) VALUES (1, TRUE)
InsertTrue ==
    <<<<"I", "N", "S", "E", "R", "T">>, <<"I", "N", "T", "O">>, <<"t">>,
      <<"(", "i", "d", ",">>, <<"d", "o", "n", "e", ")">>,
      <<"V", "A", "L", "U", "E", "S">>, <<"(", "1", ",">>,
      <<"T", "R", "U", "E", ")">>>>

\* INSERT INTO t (id, done) VALUES (2, FALSE)
InsertFalse ==
    <<<<"I", "N", "S", "E", "R", "T">>, <<"I", "N", "T", "O">>, <<"t">>,
      <<"(", "i", "d", ",">>, <<"d", "o", "n", "e", ")">>,
      <<"V", "A", "L", "U", "E", "S">>, <<"(", "2", ",">>,
      <<"F", "A", "L", "S", "E", ")">>>>

\* UPDATE t SET done = FALSE WHERE id == 1
UpdateDone ==
    <<<<"U", "P", "D", "A", "T", "E">>, <<"t">>, <<"S", "E", "T">>,
      <<"d", "o", "n", "e">>, <<"=">>, <<"F", "A", "L", "S", "E">>,
      <<"W", "H", "E", "R", "E">>, <<"i", "d">>, <<"=", "=">>, <<"1">>>>

\* UPDATE t SET id = 5
UpdateId ==
    <<<<"U", "P", "D", "A", "T", "E">>, <<"t">>, <<"S", "E", "T">>,
      <<"i", "d">>, <<"=">>, <<"5">>>>

\* DELETE FROM t WHERE id == 2
DeleteWhere ==
    <<<<"D", "E", "L", "E", "T", "E">>, <<"F", "R", "O", "M">>, <<"t">>,
      <<"W", "H", "E", "R", "E">>, <<"i", "d">>, <<"=", "=">>, <<"2">>>>

\* DELETE FROM t
DeleteAll ==
    <<<<"D", "E", "L", "E", "T", "E">>, <<"F", "R", "O", "M">>, <<"t">>>>

\* DROP TABLE
DropNothing ==
    <<<<"D", "R", "O", "P">>, <<"T", "A", "B", "L", "E">>>>

\* DROP TABLE t now
DropTrailing ==
    <<<<"D", "R", "O", "P">>, <<"T", "A", "B", "L", "E">>, <<"t">>,
      <<"n", "o", "w">>>>

\* VACUUM
Vacuum ==
    <<<<"V", "A", "C", "U", "U", "M">>>>

\* CREATE INDEX ON t (done), the statement form of tasks/db_wrapper.py
CreateIndexDone ==
    <<<<"C", "R", "E", "A", "T", "E">>, <<"I", "N", "D", "E", "X">>, <<"O", "N">>,
      <<"t">>, <<"(", "d", "o", "n", "e", ")">>>>

\* DELETE FROM t WHERE id = 2
DeleteEq ==
    <<<<"D", "E", "L", "E", "T", "E">>, <<"F", "R", "O", "M">>, <<"t">>,
      <<"W", "H", "E", "R", "E">>, <<"i", "d">>, <<"=">>, <<"2">>>>

ExecuteStatements ==
    {CreateT, DropT, InsertTrue, InsertFalse, UpdateDone, UpdateId, DeleteWhere,
     DeleteAll, DropNothing, DropTrailing, Vacuum, CreateIndexDone, DeleteEq}

NextExecute ==
    \/ \E sql \in ExecuteStatements : Execute(sql)
    \/ CreateTable(t, UniqueNameColumns)

SpecExecute == Init /\ [][NextExecute]_vars

-----------------------------------------------------------------------------
(* SpecConcurrent: two threads that each call execute of an INSERT on one  *)
(* engine.                                                                 *)

InsertSteps(th) ==
    \/ \E sql \in {InsertTrue, InsertFalse} : InsertValidate(th, sql)
    \/ InsertTakeId(th)
    \/ InsertStore(th)
    \/ InsertAdvance(th)
    \/ InsertIndex(th)
    \/ SaveBuild(th)
    \/ SaveOpen(th)
    \/ SaveDump(th)

\* Each thread makes one call
NextConcurrent ==
    \/ Execute(CreateT)
    \/ \E th \in Threads : InsertSteps(th)

SpecConcurrent == Init /\ [][NextConcurrent]_vars

-----------------------------------------------------------------------------
(* SpecCrash: one thread that calls execute, and the process killed at any *)
(* point and started again.                                                *)

NextCrash ==
    \/ \E sql \in {CreateT, UpdateId, DeleteAll} : ExecuteBranch(1, sql)
    \/ InsertSteps(1)
    \/ Return(1)
    \/ CrashAndReopen

SpecCrash == Init /\ [][NextCrash]_vars

-----------------------------------------------------------------------------
(* SpecSelect: the tables tasks and users under insert and SELECT.         *)

TaskRows ==
    {Dict2(id, IntV(10), user_id, IntV(1)), Dict2(id, IntV(11), user_id, IntV(2))}

UserRows ==
    {Dict2(id, IntV(1), name, TextV(<<"x">>)), Dict2(id, IntV(2), name, TextV(<<"y">>))}

SelectFrom(tn) == <<<<"S", "E", "L", "E", "C", "T">>, <<"*">>, <<"F", "R", "O", "M">>, tn>>

Where(col, op, literal) == <<<<"W", "H", "E", "R", "E">>, col, op, literal>>

Eq == <<"=">>
EqEq == <<"=", "=">>

\* SELECT * FROM tasks JOIN users ON tasks.user_id = users.id
JoinStatement ==
    SelectFrom(tasks) \o
    <<<<"J", "O", "I", "N">>, users, <<"O", "N">>,
      tasks \o <<".">> \o user_id, Eq, users \o <<".">> \o id>>

Statements ==
    {SelectFrom(tasks), SelectFrom(users), JoinStatement}
    \cup {SelectFrom(tasks) \o Where(user_id, op, <<"1">>) : op \in {Eq, EqEq}}
    \cup {SelectFrom(tasks) \o Where(id, op, <<"1", "0">>) : op \in {Eq, EqEq}}
    \cup {SelectFrom(users) \o Where(name, op, <<"'", "x", "'">>) : op \in {Eq, EqEq}}

NextSelect ==
    \/ CreateTable(tasks, TasksColumns)
    \/ CreateTable(users, UsersColumns)
    \/ \E row \in TaskRows : Insert(tasks, row)
    \/ \E row \in UserRows : Insert(users, row)
    \/ \E sql \in Statements : Select(sql)
    \/ \E i \in 1..MaxNextId : CallerSetsItem(i, id, IntV(7))

SpecSelect == Init /\ [][NextSelect]_vars

-----------------------------------------------------------------------------
(* Properties *)

\* The names of the columns of T declared UNIQUE or PRIMARY KEY
ConstrainedColumns(T) ==
    {T.columns[i].name : i \in {j \in 1..Len(T.columns) :
                                  T.columns[j].unique \/ T.columns[j].primary_key}}

\* The name of the primary-key columns of T
PrimaryKeyColumns(T) ==
    {T.columns[i].name : i \in {j \in 1..Len(T.columns) : T.columns[j].primary_key}}

\* C1: in every state reached by insert, update and delete calls, those
\* that raised included, no two stored rows hold the same non-null value in
\* a column declared UNIQUE or PRIMARY KEY.
C1_UniqueValuesAreUnique ==
    \A tn \in DOMAIN tables :
      \A c \in ConstrainedColumns(tables[tn]) :
        \A i, j \in 1..Len(tables[tn].rows) :
          (i /= j /\ tables[tn].rows[i].row[c] /= Null)
            => tables[tn].rows[i].row[c] /= tables[tn].rows[j].row[c]

\* C2: between any two calls of insert, update and delete, row id r is in
\* the bucket of value v of the index of column c exactly when row r exists
\* and holds the non-null value v in column c.
C2_IndexMatchesRows ==
    \A tn \in DOMAIN tables :
      \A c \in DOMAIN tables[tn].indexes :
        /\ \A v \in DOMAIN tables[tn].indexes[c] :
             \A r \in tables[tn].indexes[c][v] :
               /\ r \in RowIds(tables[tn])
               /\ v /= Null
               /\ RowAt(tables[tn], r)[c] = v
        /\ \A i \in 1..Len(tables[tn].rows) :
             tables[tn].rows[i].row[c] /= Null
               => tables[tn].rows[i].id
                    \in IndexLookup(tables[tn].indexes[c], tables[tn].rows[i].row[c])

\* The declaration of the column named c
ColumnOf(T, c) == T.columns[CHOOSE i \in 1..Len(T.columns) : T.columns[i].name = c]

\* The dict row has a value for every NOT NULL column and gives some
\* constrained column a value that a stored row of T holds in that column
DuplicatesStoredValue(T, row) ==
    \E c \in ConstrainedColumns(T) :
      /\ \A i \in 1..Len(T.columns) :
           (~T.columns[i].nullable /\ ~T.columns[i].primary_key)
             => RowGet(row, T.columns[i].name) /= Null
      /\ RowGet(row, c) /= Null
      /\ Convert(ColumnOf(T, c).data_type, RowGet(row, c)).err = "ok"
      /\ \E i \in 1..Len(T.rows) :
           T.rows[i].row[c] = Convert(ColumnOf(T, c).data_type, RowGet(row, c)).v

\* C3: an insert whose value in a UNIQUE or PRIMARY KEY column is the value
\* a stored row holds fails with the uniqueness error and changes nothing:
\* rows, indexes and next_id are as before the call.
C3_DuplicateInsertRejected ==
    [][\A tn \in DOMAIN tables :
         (/\ result'.op = "insert"
          /\ result'.table = tn
          /\ DuplicatesStoredValue(tables[tn], result'.row))
           => (result'.err = "unique" /\ tables' = tables)]_vars

\* C4: an insert that leaves out the primary-key column, or gives NULL for
\* it, stores the row with that column set to the value of next_id before
\* the call, and advances next_id.
C4_PrimaryKeyAutoAssigned ==
    [][\A tn \in DOMAIN tables :
         \A c \in PrimaryKeyColumns(tables[tn]) :
           (/\ result'.op = "insert"
            /\ result'.table = tn
            /\ result'.err = "ok"
            /\ RowGet(result'.row, c) = Null)
             => /\ RowAt(tables'[tn], result'.row_id)[c] = IntV(tables[tn].next_id)
                /\ tables'[tn].next_id > tables[tn].next_id]_vars

\* C5: an insert with an explicit primary-key value v >= next_id leaves
\* next_id at v + 1.
C5_ExplicitKeyAdvancesNextId ==
    [][\A tn \in DOMAIN tables :
         \A c \in PrimaryKeyColumns(tables[tn]) :
           (/\ result'.op = "insert"
            /\ result'.table = tn
            /\ result'.err = "ok"
            /\ RowGet(result'.row, c) /= Null
            /\ RowAt(tables'[tn], result'.row_id)[c].n >= tables[tn].next_id)
             => tables'[tn].next_id = RowAt(tables'[tn], result'.row_id)[c].n + 1]_vars

\* The last call was a successful update of a row of table tn that changed
\* the indexed column c
UpdateChanged(tn, c) ==
    /\ result.op = "update"
    /\ result.table = tn
    /\ result.err = "ok"
    /\ tn \in DOMAIN tables
    /\ c \in DOMAIN tables[tn].indexes
    /\ result.row_id \in RowIds(tables[tn])
    /\ result.old_row[c] /= RowAt(tables[tn], result.row_id)[c]

\* C8 as stated: after a successful update of row r that changes an indexed
\* column from old_value to a different new_value, lookup(old_value) does
\* not contain r and lookup(new_value) contains r.
C8_UpdateMovesIndexEntryAnyValue ==
    \A tn \in DOMAIN tables :
      \A c \in DOMAIN tables[tn].indexes :
        UpdateChanged(tn, c)
          => /\ result.row_id \notin
                  IndexLookup(tables[tn].indexes[c], result.old_row[c])
             /\ result.row_id \in
                  IndexLookup(tables[tn].indexes[c], RowAt(tables[tn], result.row_id)[c])

\* C8 amended: after a successful update of row r that changes an indexed
\* column from old_value to a different non-null new_value, lookup(old_value)
\* does not contain r and lookup(new_value) contains r.
C8_UpdateMovesIndexEntry ==
    \A tn \in DOMAIN tables :
      \A c \in DOMAIN tables[tn].indexes :
        (UpdateChanged(tn, c) /\ RowAt(tables[tn], result.row_id)[c] /= Null)
          => /\ result.row_id \notin
                  IndexLookup(tables[tn].indexes[c], result.old_row[c])
             /\ result.row_id \in
                  IndexLookup(tables[tn].indexes[c], RowAt(tables[tn], result.row_id)[c])

\* A successful update has moved a row from one non-null value of an
\* indexed column to another
C8_Witness ==
    \E tn \in DOMAIN tables :
      \E c \in DOMAIN tables[tn].indexes :
        /\ UpdateChanged(tn, c)
        /\ result.old_row[c] /= Null
        /\ RowAt(tables[tn], result.row_id)[c] /= Null
        /\ tables[tn].indexes[c][RowAt(tables[tn], result.row_id)[c]] = {result.row_id}

\* C6: over inserts, updates, deletes, saves and loads no row id is issued
\* twice to one table: next_id is greater than every row id insert has
\* returned, the ids of deleted rows included.
C6_RowIdsNeverReused ==
    \A tn \in DOMAIN tables :
      /\ \A i \in 1..Len(issued[tn]) : issued[tn][i] < tables[tn].next_id
      /\ \A i, j \in 1..Len(issued[tn]) : i /= j => issued[tn][i] /= issued[tn][j]

\* A database opened on a file that was saved after a row was deleted: the
\* id of the deleted row is not among the rows load restored
C6_Witness ==
    /\ result.op = "load"
    /\ \E tn \in DOMAIN tables :
         \E i \in 1..Len(issued[tn]) :
           /\ issued[tn][i] \notin RowIds(tables[tn])
           /\ RowIds(tables[tn]) /= {}

\* The index a scan of the rows of T builds for column c
ScanIndex(T, c) ==
    [v \in {T.rows[i].row[c] : i \in 1..Len(T.rows)} \ {Null} |->
        {T.rows[i].id : i \in {j \in 1..Len(T.rows) : T.rows[j].row[c] = v}}]

\* loaded is the database original in table names, schemas, rows, row ids
\* and next_id, with the indexes a scan of the rows of original builds
Equivalent(original, loaded) ==
    /\ DOMAIN loaded = DOMAIN original
    /\ \A tn \in DOMAIN original :
         /\ loaded[tn].name = original[tn].name
         /\ loaded[tn].columns = original[tn].columns
         /\ loaded[tn].rows = original[tn].rows
         /\ loaded[tn].next_id = original[tn].next_id
         /\ DOMAIN loaded[tn].indexes = DOMAIN original[tn].indexes
         /\ \A c \in DOMAIN original[tn].indexes :
              loaded[tn].indexes[c] = ScanIndex(original[tn], c)

\* C7: for every reachable database, save followed by load of the file
\* gives an equivalent database.
C7_SaveLoadRoundTrip == Equivalent(tables, LoadData(SaveData(tables)))

\* A database just loaded from the file a save wrote, with a table that has
\* rows and index entries
C7_Witness ==
    /\ result.op = "load"
    /\ file = SaveData(tables)
    /\ \E tn \in DOMAIN tables :
         /\ Len(tables[tn].rows) > 1
         /\ \E c \in DOMAIN tables[tn].indexes : tables[tn].indexes[c] /= EmptyMap

\* The part of a word after its first "."
RECURSIVE AfterDot(_)
AfterDot(w) ==
    IF Len(w) = 0 THEN <<>>
    ELSE IF w[1] = "." THEN Tail(w)
    ELSE AfterDot(Tail(w))

KwJoin == <<"J", "O", "I", "N">>
KwOn == <<"O", "N">>

\* sql is SELECT * FROM L JOIN R ON L.c1 = R.c2 over two tables of tbls and
\* columns of theirs
IsJoin(tbls, sql) ==
    /\ Len(sql) = 10
    /\ ParseSelect(sql).ok
    /\ Upper(sql[5]) = KwJoin
    /\ Upper(sql[7]) = KwOn
    /\ sql[9] = Eq
    /\ sql[4] \in DOMAIN tbls
    /\ sql[6] \in DOMAIN tbls
    /\ WordPrefix(sql[8]) = sql[4]
    /\ WordPrefix(sql[10]) = sql[6]
    /\ AfterDot(sql[8]) \in {tbls[sql[4]].columns[i].name : i \in 1..Len(tbls[sql[4]].columns)}
    /\ AfterDot(sql[10]) \in {tbls[sql[6]].columns[i].name : i \in 1..Len(tbls[sql[6]].columns)}

\* The joined row of a left and a right row: the columns of each under the
\* name of its table, a "." and the column name
JoinedRow(L, l, R, r) ==
    [k \in {L.name \o <<".">> \o c : c \in DOMAIN l}
           \cup {R.name \o <<".">> \o c : c \in DOMAIN r} |->
        IF WordPrefix(k) = L.name /\ AfterDot(k) \in DOMAIN l
        THEN l[AfterDot(k)]
        ELSE r[AfterDot(k)]]

\* The pairs of positions of a left and a right row that agree on the join
\* columns
MatchingPairs(L, c1, R, c2) ==
    {p \in (1..Len(L.rows)) \X (1..Len(R.rows)) :
        L.rows[p[1]].row[c1] = R.rows[p[2]].row[c2]}

\* C9: SELECT * FROM L JOIN R ON L.c1 = R.c2 returns one joined row for every
\* pair of a row of L and a row of R with equal join columns, and nothing
\* else; a joined row is a mapping (it has no row id) of the prefixed columns
\* of both rows.
C9_JoinReturnsMatchingPairs ==
    (/\ result.op = "select"
     /\ result.err = "ok"
     /\ IsJoin(tables, result.sql))
      => LET L == tables[result.sql[4]]
             R == tables[result.sql[6]]
             pairs == MatchingPairs(L, AfterDot(result.sql[8]), R, AfterDot(result.sql[10]))
         IN /\ Len(result.rows) = Cardinality(pairs)
            /\ {result.rows[k] : k \in 1..Len(result.rows)}
                 = {[id |-> NoRowId,
                     row |-> JoinedRow(L, L.rows[p[1]].row, R, R.rows[p[2]].row)] :
                       p \in pairs}

\* sql is SELECT * FROM tn WHERE c = v for a column c of table tn of tbls and
\* a literal v
IsEqualityWhere(tbls, sql) ==
    LET p == ParseSelect(sql) IN
    /\ p.ok
    /\ p.table \in DOMAIN tbls
    /\ Len(p.where) = 3
    /\ p.where[2] = Eq
    /\ p.where[1] \in {tbls[p.table].columns[i].name : i \in 1..Len(tbls[p.table].columns)}
    /\ PyLiteral(p.where[3]).ok

\* C10: SELECT * FROM tn WHERE c = v returns the rows whose column c equals v,
\* and no others.
C10_WhereEqualitySelectsEqualRows ==
    (/\ result.op = "select"
     /\ result.err = "ok"
     /\ IsEqualityWhere(tables, result.sql))
      => LET p == ParseSelect(result.sql)
             Equal(e) == PyEq(e.row[p.where[1]], PyLiteral(p.where[3]).v)
         IN result.rows = SelectSeq(tables[p.table].rows, Equal)

\* C14: discarding a row id from the set Index.lookup returned, as the
\* uniqueness check of _validate_row does, leaves every bucket of the index
\* as it was, for values that have a bucket and for values that have none.
C14_LookupIsDetached ==
    \A tn \in DOMAIN tables :
      \A c \in DOMAIN tables[tn].indexes :
        \A v \in DOMAIN tables[tn].indexes[c] \cup IdValues \cup NameValues :
          \A row_id \in RowIdArgs :
            DiscardFromLookup(tables[tn].indexes[c], v, row_id) = tables[tn].indexes[c]

\* A value of the Python type the DataType stores; an int also fits REAL
Fits(v, data_type) ==
    CASE data_type = "INTEGER" -> v.tag = "int"
      [] data_type = "TEXT"    -> v.tag = "text"
      [] data_type = "REAL"    -> v.tag \in {"real", "int"}
      [] OTHER                 -> v.tag = "bool"

\* C17: an insert or update that supplies a non-null value that does not fit
\* the declared type of its column raises; it never succeeds by storing a
\* converted value.
C17_TypeMismatchRejected ==
    (/\ result.op \in {"insert", "update"}
     /\ result.err = "ok")
      => \A c \in DOMAIN result.row :
           \A i \in 1..Len(tables[result.table].columns) :
             (tables[result.table].columns[i].name = c /\ result.row[c] /= Null)
               => Fits(result.row[c], tables[result.table].columns[i].data_type)

\* The row an insert or update call asks the table to hold
ResultingRow(call) ==
    IF call.op = "insert" THEN call.row ELSE MergeRow(call.old_row, call.row)

\* The positions in the schema of the NOT NULL columns, the primary key
\* apart, in which the row holds no value
NullViolations(columns, row) ==
    {i \in 1..Len(columns) :
        /\ ~columns[i].nullable
        /\ ~columns[i].primary_key
        /\ RowGet(row, columns[i].name) = Null}

\* No stored row holds null in a NOT NULL column that is not the primary key
NoStoredNull ==
    \A tn \in DOMAIN tables :
      \A k \in 1..Len(tables[tn].rows) :
        NullViolations(tables[tn].columns, tables[tn].rows[k].row) = {}

\* The last call was an insert, or an update of a row the table has, whose
\* resulting row holds null in a NOT NULL column that is not the primary key
NullCall ==
    /\ result.op \in {"insert", "update"}
    /\ result.err /= "notfound"
    /\ NullViolations(tables[result.table].columns, ResultingRow(result)) /= {}

\* C18 as stated: no stored row holds null in a NOT NULL column other than the
\* primary key, and an insert or update whose resulting row would hold one
\* fails with the null-constraint error.
C18_NullRejectedWithNullError ==
    /\ NoStoredNull
    /\ NullCall => result.err = "null"

\* C18, amended: such a call fails with the null-constraint error, or with the
\* conversion or uniqueness error of a column that comes before the null
\* one in the schema and holds a value.
C18_NullRejected ==
    /\ NoStoredNull
    /\ NullCall =>
         \/ result.err = "null"
         \/ /\ result.err \in {"convert", "unique"}
            /\ \E k \in NullViolations(tables[result.table].columns, ResultingRow(result)) :
                 \E j \in 1..(k - 1) :
                   RowGet(ResultingRow(result),
                          tables[result.table].columns[j].name) /= Null

\* An update that would set a NOT NULL column of a stored row to null has
\* just raised the null-constraint error
C18_Witness ==
    /\ NullCall
    /\ result.op = "update"
    /\ result.err = "null"
    /\ Len(tables[result.table].rows) > 0

\* C13: an assignment the caller makes to a row mapping it got from a select
\* leaves the rows and the indexes of every table as they were.
C13_SelectReturnsCopies ==
    [][result'.op = "setitem" => tables' = tables]_vars

\* The file f holds the tables of tbls: load gives every table with its
\* schema, its rows under their row ids and its next_id
Describes(f, tbls) ==
    /\ f.exists
    /\ f.complete
    /\ DOMAIN LoadData(f) = DOMAIN tbls
    /\ \A tn \in DOMAIN tbls :
         /\ LoadData(f)[tn].columns = tbls[tn].columns
         /\ LoadData(f)[tn].rows = tbls[tn].rows
         /\ LoadData(f)[tn].next_id = tbls[tn].next_id

\* The last call was execute of a statement that changes the database, and
\* it returned its status string
StatusReturned ==
    /\ result.sql /= <<>>
    /\ result.op \in {"create_table", "drop_table", "insert", "update", "delete"}
    /\ result.err = "ok"

\* C11: when execute returns the status of a CREATE TABLE, DROP TABLE, INSERT,
\* UPDATE or DELETE, the file holds the database as it is in memory.
C11_StatusMeansSaved == StatusReturned => Describes(file, tables)

\* An UPDATE that changed a row has returned its count
C11_Witness ==
    /\ StatusReturned
    /\ result.op = "update"
    /\ result.count > 0
    /\ Describes(file, tables)

KwCreateIndex == <<"C", "R", "E", "A", "T", "E", " ", "I", "N", "D", "E", "X">>

StatementKeywords ==
    {KwCreateTable, KwDropTable, KwCreateIndex, KwInsertInto, KwSelect, KwUpdate,
     KwDeleteFrom}

\* sql starts like no statement of the language, or it is a DROP TABLE that
\* is not DROP TABLE <name>: the name is missing or words follow it
MatchesNoShape(sql) ==
    \/ \A kw \in StatementKeywords : ~StartsWith(Upper(Join(sql)), kw)
    \/ /\ StartsWith(Upper(Join(sql)), KwDropTable)
       /\ ~(Len(sql) = 3 /\ sql[3] /= <<>> /\ WordPrefix(sql[3]) = sql[3])

\* C15: execute of a statement that matches no statement shape in full
\* raises the syntax error.
C15_MalformedRaisesSyntaxError ==
    (result.sql /= <<>> /\ MatchesNoShape(result.sql)) => result.err = "syntax"

\* sql is UPDATE tn SET c = tok, with or without a WHERE clause
IsSingleSet(sql) ==
    /\ Len(sql) >= 6
    /\ Upper(sql[1]) = KwUpdate
    /\ Upper(sql[3]) = KwSet
    /\ sql[5] = Eq
    /\ Len(sql) > 6 => Upper(sql[7]) = KwWhere

\* INSERT INTO tn (c) VALUES (tok)
InsertOf(tn, c, tok) ==
    <<<<"I", "N", "S", "E", "R", "T">>, <<"I", "N", "T", "O">>, tn,
      <<"(">> \o c \o <<")">>, KwValues, <<"(">> \o tok \o <<")">>>>

\* The value the statement INSERT INTO tn (c) VALUES (tok) stores in column
\* c of the row it adds to an empty table with the columns of T
StoredByInsert(T, c, tok) ==
    LET r == ExecuteInsert([x \in {T.name} |-> NewTable(T.name, T.columns)],
                           InsertOf(T.name, c, tok))
    IN RowAt(r.tables[T.name], r.row_id)[c]

\* C16: every row an UPDATE tn SET c = tok changed holds in c the value that
\* INSERT INTO tn (c) VALUES (tok) stores.
C16_UpdateCoercesLikeInsert ==
    (/\ StatusReturned
     /\ result.op = "update"
     /\ IsSingleSet(result.sql))
      => LET T == tables[result.table]
             c == result.sql[4]
             Matched(e) == WhereFunc(SubSeq(result.sql, 8, Len(result.sql)), T, e.row)
         IN \A k \in 1..Len(T.rows) :
              (result.count = Len(T.rows) \/ Matched(T.rows[k]))
                => T.rows[k].row[c] = StoredByInsert(T, c, result.sql[6])

\* C19: create_table of a name that is taken raises 'already exists' and
\* leaves the tables and the file as they were; of a free name it adds a
\* table without rows, with an empty index for each primary-key or unique
\* column and for no other, and leaves the other tables as they were.
C19_CreateTable ==
    [][(result'.op = "create_table" /\ result'.err \in {"ok", "exists"})
         => IF result'.table \in DOMAIN tables
            THEN /\ result'.err = "exists"
                 /\ tables' = tables
                 /\ file' = file
            ELSE /\ result'.err = "ok"
                 /\ DOMAIN tables' = DOMAIN tables \cup {result'.table}
                 /\ \A tn \in DOMAIN tables : tables'[tn] = tables[tn]
                 /\ tables'[result'.table].rows = <<>>
                 /\ tables'[result'.table].next_id = 0
                 /\ DOMAIN tables'[result'.table].indexes
                      = ConstrainedColumns(tables'[result'.table])
                 /\ \A c \in DOMAIN tables'[result'.table].indexes :
                      tables'[result'.table].indexes[c] = EmptyMap]_vars

\* CREATE TABLE of a taken name has just raised, and the table of that name
\* has rows and index entries
C19_Witness ==
    /\ result.op = "create_table"
    /\ result.sql /= <<>>
    /\ result.err = "exists"
    /\ Len(tables[result.table].rows) > 0
    /\ \E c \in DOMAIN tables[result.table].indexes :
         tables[result.table].indexes[c] /= EmptyMap
    /\ file = SaveData(tables)

\* C12: the process killed at any point of a save finds, when it starts
\* again, a file that holds a whole snapshot, and load succeeds.
C12_CrashLeavesLoadableFile ==
    result.op = "reopen" => (file.complete /\ result.err = "ok")

\* Both threads have returned from execute of their INSERT with a status
BothInserted ==
    \A th \in Threads : threads[th].pc = "done" /\ threads[th].err = "ok"

\* C20: two INSERTs that two threads execute at the same time on one table
\* get different row ids, and the rows of both are in the table and in the
\* file.
C20_ConcurrentInsertsSerialized ==
    BothInserted =>
      /\ threads[1].row_id /= threads[2].row_id
      /\ \A th \in Threads :
           /\ threads[th].row_id \in RowIds(tables[threads[th].table])
           /\ RowAt(tables[threads[th].table], threads[th].row_id)
                = threads[th].validated
      /\ Describes(file, tables)

\* sql is CREATE INDEX ON tn (c)
IsCreateIndex(sql) ==
    /\ Len(sql) = 5
    /\ StartsWith(Upper(Join(sql)), KwCreateIndex \o <<" ", "O", "N", " ">>)
    /\ Len(sql[5]) > 2 /\ Head(sql[5]) = "(" /\ sql[5][Len(sql[5])] = ")"

\* The column CREATE INDEX ON tn (c) names
IndexedColumn(sql) == SubSeq(sql[5], 2, Len(sql[5]) - 1)

\* C21: execute of CREATE INDEX ON t (c), t a table and c a column of it,
\* returns its status, and t then has an index on c that maps each non-null
\* value of c to the ids of the rows that hold it.
C21_CreateIndex ==
    (/\ result.sql /= <<>>
     /\ IsCreateIndex(result.sql)
     /\ result.sql[4] \in DOMAIN tables
     /\ \E i \in 1..Len(tables[result.sql[4]].columns) :
          tables[result.sql[4]].columns[i].name = IndexedColumn(result.sql))
    => /\ result.err = "ok"
       /\ IndexedColumn(result.sql) \in DOMAIN tables[result.sql[4]].indexes
       /\ tables[result.sql[4]].indexes[IndexedColumn(result.sql)]
            = ScanIndex(tables[result.sql[4]], IndexedColumn(result.sql))

\* C24: a Table.update call that raises leaves the table as it was: the
\* rows, next_id and every bucket of every index.
C24_RaisingUpdateChangesNothing ==
    [][(result'.op = "update" /\ result'.err /= "ok") => tables' = tables]_vars

\* An index of T holds, for the value new_row gives its column, the id of a
\* row other than row_id
OtherHolder(T, row_id, new_row) ==
    \E c \in DOMAIN T.indexes :
      /\ RowGet(new_row, c) /= Null
      /\ IndexLookup(T.indexes[c], Convert(ColumnOf(T, c).data_type, new_row[c]).v)
           \ {row_id} /= {}

\* updates leaves column c of the row row_id of T at its value, which the
\* index of c maps to that row alone
LeavesValue(T, row_id, updates, c) ==
    /\ row_id \in RowIds(T)
    /\ c \in ConstrainedColumns(T) \cap DOMAIN T.indexes
    /\ RowAt(T, row_id)[c] /= Null
    /\ c \in DOMAIN updates => updates[c] = RowAt(T, row_id)[c]
    /\ IndexLookup(T.indexes[c], RowAt(T, row_id)[c]) = {row_id}

\* C23: Table.update of row r that leaves a unique or primary-key column at
\* its value raises no uniqueness error that r itself causes, and after the
\* call the index of the column maps the value to {r}.
C23_UpdateKeepsOwnValue ==
    [][\A tn \in DOMAIN tables :
         \A c \in DOMAIN tables[tn].indexes :
           (/\ result'.op = "update"
            /\ result'.table = tn
            /\ tn \in DOMAIN tables'
            /\ LeavesValue(tables[tn], result'.row_id, result'.row, c))
           => /\ result'.err = "unique"
                   => OtherHolder(tables[tn], result'.row_id,
                                  MergeRow(RowAt(tables[tn], result'.row_id),
                                           result'.row))
              /\ IndexLookup(tables'[tn].indexes[c],
                             RowAt(tables[tn], result'.row_id)[c])
                   = {result'.row_id}]_vars

\* C25: after every execute call, one that raised included, load of the
\* file gives the database in memory: a call made when the file describes
\* the tables ends with the file describing the tables.
C25_ExecuteLeavesFileCurrent ==
    [][(result'.sql /= <<>> /\ Describes(file, tables))
         => Describes(file', tables')]_vars

\* The words of sql after its WHERE, none if it has no WHERE
WhereWords(sql) ==
    IF \E i \in 1..Len(sql) : Upper(sql[i]) = KwWhere
    THEN SubSeq(sql, (CHOOSE i \in 1..Len(sql) : Upper(sql[i]) = KwWhere) + 1, Len(sql))
    ELSE <<>>

\* w is no WHERE clause, or it is c = v or c == v with c a column of T
IsSimpleWhere(T, w) ==
    \/ w = <<>>
    \/ /\ Len(w) = 3
       /\ w[2] \in {Eq, EqEq}
       /\ w[1] \in {T.columns[i].name : i \in 1..Len(T.columns)}
       /\ PyLiteral(w[3]).ok

\* The ids of the rows of T that the predicate w selects: every row if
\* there is no WHERE, the rows whose column equals the value otherwise
Matching(T, w) ==
    IF w = <<>> THEN RowIds(T)
    ELSE {r \in RowIds(T) : PyEq(RowAt(T, r)[w[1]], PyLiteral(w[3]).v)}

\* C22: an UPDATE or DELETE that execute carries out changes or removes the
\* rows its WHERE selects in the table as it was before the statement, every
\* row without a WHERE, leaves the other rows as they were and returns the
\* number of selected rows; DELETE FROM t leaves no row and no index entry
\* and keeps next_id.
C22_UpdateDeleteAffectMatchingRows ==
    [][(/\ result'.sql /= <<>>
        /\ result'.op \in {"update", "delete"}
        /\ result'.err = "ok"
        /\ result'.table \in DOMAIN tables
        /\ IsSimpleWhere(tables[result'.table], WhereWords(result'.sql)))
       => LET T == tables[result'.table]
              T2 == tables'[result'.table]
              M == Matching(T, WhereWords(result'.sql))
          IN
          /\ result'.count = Cardinality(M)
          /\ \A r \in RowIds(T) \ M : r \in RowIds(T2) /\ RowAt(T2, r) = RowAt(T, r)
          /\ result'.op = "delete" => RowIds(T2) = RowIds(T) \ M
          /\ result'.op = "update" =>
                /\ RowIds(T2) = RowIds(T)
                /\ \A r \in M :
                     \A c \in DOMAIN RowAt(T, r) :
                       RowAt(T2, r)[c] =
                         IF c \in DOMAIN result'.row /\ result'.row[c] /= Null
                         THEN Convert(ColumnOf(T, c).data_type, result'.row[c]).v
                         ELSE IF c \in DOMAIN result'.row THEN Null
                              ELSE RowAt(T, r)[c]
          /\ (result'.op = "delete" /\ WhereWords(result'.sql) = <<>>) =>
                /\ T2.rows = <<>>
                /\ \A c \in DOMAIN T2.indexes : T2.indexes[c] = EmptyMap
                /\ T2.next_id = T.next_id]_vars

\* The row ids of rows, in the order of rows
IdsOf(rows) == [i \in 1..Len(rows) |-> rows[i].id]

\* Each pair of rows has a greater row id than the pair before it
Ascending(rows) == \A i \in 1..(Len(rows) - 1) : rows[i].id < rows[i + 1].id

\* No WHERE, and WHERE id != 3
SelectClauses == {<<>>, <<id, <<"!", "=">>, <<"3">>>>}

\* C26: after inserts, updates, deletes, saves and loads Table.select, with
\* and without a predicate, returns its pairs in ascending order of row id,
\* and an update leaves every row at its position.
C26_SelectAscending ==
    /\ [](\A tn \in DOMAIN tables :
            \A w \in SelectClauses : Ascending(MatchedRows(tables[tn], w)))
    /\ [][(result'.op = "update" /\ result'.table \in DOMAIN tables)
            => IdsOf(tables'[result'.table].rows) = IdsOf(tables[result'.table].rows)]_vars

\* An update has changed the first of two rows of a table that a load
\* restores with both rows
C26_Witness ==
    /\ result.op = "update"
    /\ result.err = "ok"
    /\ Len(tables[result.table].rows) = 2
    /\ result.row_id = tables[result.table].rows[1].id
    /\ result.old_row /= tables[result.table].rows[1].row
    /\ file.exists
    /\ result.table \in DOMAIN LoadData(file)
    /\ Len(LoadData(file)[result.table].rows) = 2
    /\ Len(MatchedRows(tables[result.table], <<id, <<"!", "=">>, <<"3">>>>)) = 2

====
